---- MODULE Spec2Model ----
(***************************************************************************)
(* Model of SanHub's prompt blocklist matcher (lib/prompt-blocklist-core)  *)
(* prompt processor (processVideoPrompt, in its two versions) and video    *)
(* channel adapter (generateWithSora and its routes).                      *)
(*                                                                         *)
(* A JavaScript string is a sequence of one-character strings.  A regular  *)
(* expression is modelled for the fragment the rule alphabet can spell:    *)
(* literal characters, `.', grouping parentheses and backslash escapes,    *)
(* with the flags g, i, s, y (m, u, d do not change a match in it).        *)
(***************************************************************************)
EXTENDS Naturals, Integers, Sequences, FiniteSets, TLC

VARIABLES
    systemConfig,   \* blocklist part of the stored configuration
    blPrompt,       \* the prompt of the request being checked
    blPc,           \* "ready" | "found" | "asserted"
    blResult,       \* completion of findBlockedWords: [threw, list]
    blError,        \* completion of assertPromptAllowed: [thrown, message]
    ppVariant,      \* which version of the prompt processor runs: 1 | 2
    ppConfig,       \* config.promptProcessing as stored
    ppOriginal,     \* processVideoPrompt's argument
    ppPc,           \* "off" | "idle" | "filter" | "translate" | "refilter" | "returned" | "failed"
    ppState,        \* locals: currentPrompt, filteredPrompt, translatedPrompt
    ppCalls,        \* the fetches issued so far, in order
    ppOutcome,      \* the returned ProcessedPromptResult or the error thrown
    vdRequest,      \* generateWithSora's SoraGenerateRequest
    vdModelConfig,  \* what getVideoModelWithChannel finds for request.modelId
    vdPricing,      \* config.pricing
    vdUpstream,     \* what the upstream of the selected route will answer
    vdPc,           \* "off" | "idle" | "chat" | "sora" | "returned" | "failed"
    vdRoute,        \* "none" | "chat" | "sora" | "legacy"
    vdCalls,        \* the upstream calls issued so far, in order
    vdProgress,     \* the values passed to onProgress, in order
    vdOutcome,      \* the returned GenerateResult or the error thrown
    ccConfig,       \* what getSystemConfig returns to the character-card route
    ccInput,        \* per request: session, body, user row and the upstream's answer
    ccReq,          \* per request: position, response, stream controller and reader locals
    ccCards,        \* the character-card table
    ccNextId,       \* the id the table gives to the next record
    adStore,        \* the persistence layer behind the admin routes: configuration and video models
    adRequest,      \* the admin request handled last: handler, session and body
    adResponse,     \* its response
    adCalls,        \* the persistence calls it made, in order
    gmModels,       \* groupModels' argument
    gmPc,           \* "off" | "loop" | "returned"
    gmIndex,        \* how many models the first loop has handled
    gmGrouped,      \* the Map of groups, in insertion order
    gmUngrouped,    \* the ungrouped array
    gmProcessedIds, \* the processedIds set
    gmResult        \* the returned { grouped, ungrouped }

blVars == <<systemConfig, blPrompt, blPc, blResult, blError>>

ppVars == <<ppVariant, ppConfig, ppOriginal, ppPc, ppState, ppCalls, ppOutcome>>

vdVars ==
    <<vdRequest, vdModelConfig, vdPricing, vdUpstream, vdPc, vdRoute, vdCalls, vdProgress,
      vdOutcome>>

ccVars == <<ccConfig, ccInput, ccReq, ccCards, ccNextId>>

adVars == <<adStore, adRequest, adResponse, adCalls>>

gmVars == <<gmModels, gmPc, gmIndex, gmGrouped, gmUngrouped, gmProcessedIds, gmResult>>

vars == <<blVars, ppVars, vdVars, ccVars, adVars, gmVars>>

(***************************************************************************)
(* Characters and String.prototype helpers                                 *)
(***************************************************************************)
LowerLetters ==
    <<"a","b","c","d","e","f","g","h","i","j","k","l","m",
      "n","o","p","q","r","s","t","u","v","w","x","y","z">>

UpperLetters ==
    <<"A","B","C","D","E","F","G","H","I","J","K","L","M",
      "N","O","P","Q","R","S","T","U","V","W","X","Y","Z">>

Range(f) == { f[i] : i \in DOMAIN f }

LowerSet == Range(LowerLetters)

UpperSet == Range(UpperLetters)

DigitSet == {"0","1","2","3","4","5","6","7","8","9"}

LowerTable ==
    [c \in UpperSet |-> LowerLetters[CHOOSE i \in 1..26 : UpperLetters[i] = c]]

\* String.prototype.toLowerCase on one character
toLowerChar(c) == IF c \in UpperSet THEN LowerTable[c] ELSE c

toLowerCase(s) == [i \in 1..Len(s) |-> toLowerChar(s[i])]

\* the white space String.prototype.trim removes
IsWhitespace(c) == c \in {" ", "\t", "\n", "\r"}

SetMin(S) == CHOOSE x \in S : \A y \in S : x <= y

SetMax(S) == CHOOSE x \in S : \A y \in S : x >= y

trim(s) ==
    LET idx == { i \in 1..Len(s) : ~IsWhitespace(s[i]) }
    IN  IF idx = {} THEN <<>> ELSE SubSeq(s, SetMin(idx), SetMax(idx))

startsWith(s, p) == Len(s) >= Len(p) /\ SubSeq(s, 1, Len(p)) = p

slice(s, n) == SubSeq(s, n + 1, Len(s))

includes(s, sub) ==
    \E i \in 0..(Len(s) - Len(sub)) : SubSeq(s, i + 1, i + Len(sub)) = sub

\* \p{L}\p{N}_ of the word-boundary class
IsWordChar(c) == c \in LowerSet \/ c \in UpperSet \/ c \in DigitSet \/ c = "_"

\* [a-z] under the i flag
IsAsciiLetter(c) == c \in LowerSet \/ c \in UpperSet

RECURSIVE join(_, _)
join(list, sep) ==
    IF list = <<>> THEN <<>>
    ELSE IF Len(list) = 1 THEN list[1]
    ELSE list[1] \o sep \o join(Tail(list), sep)

\* String.prototype.split(/\r?\n/)
RECURSIVE splitLines(_)
splitLines(s) ==
    LET nl == { i \in 1..Len(s) : s[i] = "\n" }
    IN  IF nl = {} THEN <<s>>
        ELSE LET i == SetMin(nl)
                 stop == IF i > 1 /\ s[i - 1] = "\r" THEN i - 2 ELSE i - 1
             IN  <<SubSeq(s, 1, stop)>> \o splitLines(SubSeq(s, i + 1, Len(s)))

(***************************************************************************)
(* prompt-blocklist-core.ts                                                *)
(***************************************************************************)
PROMPT_BLOCKED_ERROR_PREFIX ==
    <<"P","r","o","m","p","t"," ","b","l","o","c","k","e","d"," ",
      "b","y"," ","s","a","f","e","t","y"," ","p","o","l","i","c","y">>

WORD_PREFIX == <<"w","o","r","d",":">>

SUBSTRING_PREFIX == <<"s","u","b","s","t","r",":">>

REGEX_PREFIXES == << <<"r","e",":">>, <<"r","e","g","e","x",":">> >>

normalizeText(value) == toLowerCase(trim(value))

\* the characters of [.*+?^${}()|[\]\\]
SyntaxChars == {".", "*", "+", "?", "^", "$", "{", "}", "(", ")", "|", "[", "]", "\\"}

RECURSIVE escapeRegExp(_)
escapeRegExp(value) ==
    IF value = <<>> THEN <<>>
    ELSE (IF Head(value) \in SyntaxChars THEN <<"\\", Head(value)>> ELSE <<Head(value)>>)
         \o escapeRegExp(Tail(value))

(***************************************************************************)
(* RegExp objects.  A compiled expression is its token list (a literal     *)
(* character or `.'), its flags and its lastIndex.  Quantifiers, classes,  *)
(* alternation and anchors in a rule's own pattern are outside the         *)
(* fragment: the rule alphabet of this model cannot spell them.            *)
(***************************************************************************)
NoRegex == [kind |-> "none", toks |-> <<>>, flags |-> <<>>, lastIndex |-> 0]

SyntaxError == [kind |-> "SyntaxError", toks |-> <<>>, flags |-> <<>>, lastIndex |-> 0]

Lit(c) == [any |-> FALSE, ch |-> c]

AnyChar == [any |-> TRUE, ch |-> "."]

\* the pattern parser of `new RegExp(source, flags)' with the u flag set:
\* an unbalanced parenthesis, a trailing backslash or an identity escape of
\* a non-syntax character is a SyntaxError
RECURSIVE parsePattern(_, _)
parsePattern(src, depth) ==
    IF src = <<>> THEN [ok |-> depth = 0, toks |-> <<>>]
    ELSE LET c == Head(src)
         IN  IF c = "\\"
             THEN IF Len(src) >= 2 /\ src[2] \in (SyntaxChars \cup {"/"})
                  THEN LET r == parsePattern(SubSeq(src, 3, Len(src)), depth)
                       IN  [ok |-> r.ok, toks |-> <<Lit(src[2])>> \o r.toks]
                  ELSE [ok |-> FALSE, toks |-> <<>>]
             ELSE IF c = "(" THEN parsePattern(Tail(src), depth + 1)
             ELSE IF c = ")"
             THEN IF depth = 0 THEN [ok |-> FALSE, toks |-> <<>>]
                  ELSE parsePattern(Tail(src), depth - 1)
             ELSE LET r == parsePattern(Tail(src), depth)
                      t == IF c = "." THEN AnyChar ELSE Lit(c)
                  IN  [ok |-> r.ok, toks |-> <<t>> \o r.toks]

NewRegExp(source, flags) ==
    LET p == parsePattern(source, 0)
    IN  IF p.ok
        THEN [kind |-> "pattern", toks |-> p.toks, flags |-> flags, lastIndex |-> 0]
        ELSE SyntaxError

hasFlag(regex, f) == \E i \in 1..Len(regex.flags) : regex.flags[i] = f

charMatches(tok, c, regex) ==
    IF tok.any THEN hasFlag(regex, "s") \/ c \notin {"\n", "\r"}
    ELSE IF hasFlag(regex, "i") THEN toLowerChar(tok.ch) = toLowerChar(c)
    ELSE tok.ch = c

\* the tokens match str at 0-based offset p
matchAt(regex, str, p) ==
    /\ p + Len(regex.toks) <= Len(str)
    /\ \A k \in 1..Len(regex.toks) : charMatches(regex.toks[k], str[p + k], regex)

\* the word-boundary expression without its lookahead
boundaryAhead_absent(str, q) == q <= Len(str)

\* (?=$|[^\p{L}\p{N}_]) at 0-based offset q
boundaryAhead(str, q) == q = Len(str) \/ ~IsWordChar(str[q + 1])

\* (?:^|[^\p{L}\p{N}_])BODY(?=$|[^\p{L}\p{N}_]) tried at 0-based offset p
wordMatchAt(regex, str, p) ==
    \/ /\ p = 0
       /\ matchAt(regex, str, p)
       /\ boundaryAhead(str, p + Len(regex.toks))
    \/ /\ p < Len(str)
       /\ ~IsWordChar(str[p + 1])
       /\ matchAt(regex, str, p + 1)
       /\ boundaryAhead(str, p + 1 + Len(regex.toks))

\* RegExp.prototype.test: with g or y the search starts at lastIndex, with y
\* it is tried at that offset only
test(regex, str) ==
    LET stateful == hasFlag(regex, "g") \/ hasFlag(regex, "y")
        start == IF stateful THEN regex.lastIndex ELSE 0
        offsets == IF hasFlag(regex, "y") THEN {start} ELSE start..Len(str)
    IN  \E p \in offsets :
            /\ p <= Len(str)
            /\ IF regex.kind = "word" THEN wordMatchAt(regex, str, p)
               ELSE matchAt(regex, str, p)

buildWordBoundaryRegex(value) ==
    LET escaped == escapeRegExp(trim(value))
        p == parsePattern(escaped, 0)
    IN  IF p.ok
        THEN [kind |-> "word", toks |-> p.toks, flags |-> <<"i", "u">>, lastIndex |-> 0]
        ELSE SyntaxError

NullRule == [type |-> "null", raw |-> <<>>, value |-> <<>>, regex |-> NoRegex]

\* an exception leaving parseRule
ThrownRule == [type |-> "throw", raw |-> <<>>, value |-> <<>>, regex |-> SyntaxError]

KnownFlags == {"g", "i", "m", "s", "u", "y", "d"}

indexOf(list, x) == SetMin({ i \in 1..Len(list) : list[i] = x })

\* filter((x, index, list) => list.indexOf(x) === index)
firstOccurrences(list) ==
    LET F[i \in 0..Len(list)] ==
            IF i = 0 THEN <<>>
            ELSE IF indexOf(list, list[i]) = i THEN Append(F[i - 1], list[i]) ELSE F[i - 1]
    IN  F[Len(list)]

IsKnownFlag(flag) == flag \in KnownFlags

\* buildRegexRule without its try/catch: the SyntaxError escapes
buildRegexRule_uncaught(raw, pattern, flags) ==
    LET cleanedPattern == trim(pattern)
        regex == NewRegExp(cleanedPattern, IF flags = <<>> THEN <<"i", "u">> ELSE flags)
    IN  IF cleanedPattern = <<>> THEN NullRule
        ELSE IF regex.kind = "SyntaxError" THEN ThrownRule
        ELSE [type |-> "regex", raw |-> raw, value |-> cleanedPattern, regex |-> regex]

buildRegexRule(raw, pattern, flags) ==
    LET cleanedPattern == trim(pattern)
        given == IF flags = <<>> THEN <<"i", "u">> ELSE flags
        uniqueFlags == SelectSeq(firstOccurrences(given), IsKnownFlag)
        finalFlags == IF \E i \in 1..Len(uniqueFlags) : uniqueFlags[i] = "u"
                      THEN uniqueFlags ELSE uniqueFlags \o <<"u">>
        regex == NewRegExp(cleanedPattern, finalFlags)
    IN  IF cleanedPattern = <<>> THEN NullRule
        ELSE IF regex.kind = "SyntaxError" THEN NullRule
        ELSE [type |-> "regex", raw |-> raw, value |-> cleanedPattern, regex |-> regex]

\* rest.match(/^\/(.*)\/([a-z]*)$/i): the last `/' closes the pattern, only
\* letters may follow it, and `.' spans no line terminator
literalMatch(s) ==
    LET slashes == { i \in 2..Len(s) : s[i] = "/" }
        last == SetMax(slashes)
    IN  IF Len(s) < 2 \/ s[1] # "/" \/ slashes = {} THEN [found |-> FALSE, pattern |-> <<>>, flags |-> <<>>]
        ELSE IF /\ \A k \in (last + 1)..Len(s) : IsAsciiLetter(s[k])
                /\ \A k \in 2..(last - 1) : s[k] \notin {"\n", "\r"}
        THEN [found |-> TRUE, pattern |-> SubSeq(s, 2, last - 1), flags |-> SubSeq(s, last + 1, Len(s))]
        ELSE [found |-> FALSE, pattern |-> <<>>, flags |-> <<>>]

wordRule(raw, value) ==
    LET regex == buildWordBoundaryRegex(value)
    IN  IF regex.kind = "SyntaxError" THEN ThrownRule
        ELSE [type |-> "word", raw |-> raw, value |-> value, regex |-> regex]

\* REGEX_PREFIXES reduced to `re:'
regexPrefixOf_reOnly(lower) == IF startsWith(lower, REGEX_PREFIXES[1]) THEN 1 ELSE 0

regexPrefixOf(lower) ==
    IF startsWith(lower, REGEX_PREFIXES[1]) THEN 1
    ELSE IF startsWith(lower, REGEX_PREFIXES[2]) THEN 2
    ELSE 0

parseRule(line) ==
    LET raw == trim(line)
        lower == toLowerCase(raw)
    IN  IF raw = <<>> THEN NullRule
        ELSE IF startsWith(lower, SUBSTRING_PREFIX)
        THEN LET value == trim(slice(raw, Len(SUBSTRING_PREFIX)))
             IN  IF value = <<>> THEN NullRule
                 ELSE [type |-> "substring", raw |-> raw, value |-> value, regex |-> NoRegex]
        ELSE IF startsWith(lower, WORD_PREFIX)
        THEN LET value == trim(slice(raw, Len(WORD_PREFIX)))
             IN  IF value = <<>> THEN NullRule ELSE wordRule(raw, value)
        ELSE IF regexPrefixOf(lower) # 0
        THEN LET rest == trim(slice(raw, Len(REGEX_PREFIXES[regexPrefixOf(lower)])))
                 lit == literalMatch(rest)
             IN  IF rest = <<>> THEN NullRule
                 ELSE IF lit.found THEN buildRegexRule(raw, lit.pattern, lit.flags)
                 ELSE buildRegexRule(raw, rest, <<"i", "u">>)
        ELSE LET lit == literalMatch(raw)
             IN  IF lit.found THEN buildRegexRule(raw, lit.pattern, lit.flags)
                 ELSE wordRule(raw, raw)

IsNonEmpty(line) == Len(line) > 0

parseBlocklistWords(raw) ==
    LET lines == splitLines(raw)
        trimmed == [i \in 1..Len(lines) |-> trim(lines[i])]
    IN  SelectSeq(trimmed, IsNonEmpty)

IsRule(rule) == rule.type # "null"

\* the rules array built from the de-duplicated lines
compileRules_dedup(rawWords) ==
    LET lines == firstOccurrences(parseBlocklistWords(rawWords))
        parsed == [i \in 1..Len(lines) |-> parseRule(lines[i])]
    IN  SelectSeq(parsed, IsRule)

\* the rules array of findBlockedWords (lines 109-111)
compileRules(rawWords) ==
    LET lines == parseBlocklistWords(rawWords)
        parsed == [i \in 1..Len(lines) |-> parseRule(lines[i])]
    IN  SelectSeq(parsed, IsRule)

\* the substring test on the prompt and the value as written
ruleMatches_raw(rule, prompt, normalizedPrompt) ==
    IF rule.type = "substring"
    THEN includes(prompt, rule.value)
    ELSE test([rule.regex EXCEPT !.lastIndex = 0], prompt)

ruleMatches(rule, prompt, normalizedPrompt) ==
    IF rule.type = "substring"
    THEN includes(normalizedPrompt, normalizeText(rule.value))
    ELSE test([rule.regex EXCEPT !.lastIndex = 0], prompt)

\* the loop without its `seen' set
matchRules_noSeen(rules, prompt, normalizedPrompt) ==
    LET F[i \in 0..Len(rules)] ==
            IF i = 0 THEN <<>>
            ELSE IF ruleMatches(rules[i], prompt, normalizedPrompt)
            THEN Append(F[i - 1], rules[i].raw)
            ELSE F[i - 1]
    IN  F[Len(rules)]

\* the for loop of findBlockedWords (lines 113-133)
matchRules(rules, prompt, normalizedPrompt) ==
    LET F[i \in 0..Len(rules)] ==
            IF i = 0 THEN [seen |-> {}, matched |-> <<>>]
            ELSE LET acc == F[i - 1]
                     rule == rules[i]
                     identity == normalizeText(rule.raw)
                 IN  IF identity = <<>> \/ identity \in acc.seen THEN acc
                     ELSE IF ruleMatches(rule, prompt, normalizedPrompt)
                     THEN [seen |-> acc.seen \cup {identity},
                           matched |-> Append(acc.matched, rule.raw)]
                     ELSE acc
    IN  F[Len(rules)].matched

findBlockedWords(p, rawWords) ==
    LET normalizedPrompt == normalizeText(p)
        rules == compileRules(rawWords)
    IN  IF normalizedPrompt = <<>> THEN [threw |-> FALSE, list |-> <<>>]
        ELSE IF \E i \in 1..Len(rules) : rules[i].type = "throw"
        THEN [threw |-> TRUE, list |-> <<>>]
        ELSE [threw |-> FALSE, list |-> matchRules(rules, p, normalizedPrompt)]

buildPromptBlockedMessage(matchedWords) ==
    PROMPT_BLOCKED_ERROR_PREFIX \o <<":", " ">> \o join(matchedWords, <<",", " ">>)

NoError == [thrown |-> FALSE, message |-> <<>>]

Error(message) == [thrown |-> TRUE, message |-> message]

\* blocking on unless switched off explicitly
assertPromptAllowedWithConfig_onByDefault(p, config) ==
    IF config.blocklistEnabled = "false" THEN NoError
    ELSE LET words == IF config.blocklistWords.defined THEN config.blocklistWords.text ELSE <<>>
             found == findBlockedWords(p, words)
         IN  IF Len(found.list) > 0 THEN Error(buildPromptBlockedMessage(found.list))
             ELSE NoError

\* config: [blocklistEnabled : "true" | "false" | "undefined",
\*          blocklistWords : [defined, text]]
assertPromptAllowedWithConfig(p, config) ==
    IF config.blocklistEnabled # "true" THEN NoError
    ELSE LET words == IF config.blocklistWords.defined THEN config.blocklistWords.text ELSE <<>>
             found == findBlockedWords(p, words)
         IN  IF found.threw THEN Error(<<"S","y","n","t","a","x","E","r","r","o","r">>)
             ELSE IF Len(found.list) > 0 THEN Error(buildPromptBlockedMessage(found.list))
             ELSE NoError

isPromptBlockedError(error) ==
    IF ~error.thrown THEN FALSE
    ELSE startsWith(error.message, PROMPT_BLOCKED_ERROR_PREFIX)

DefaultBlocklistConfig ==
    [blocklistEnabled |-> "false", blocklistWords |-> [defined |-> TRUE, text |-> <<>>]]

\* lib/prompt-blocklist.ts: the configuration is read from the store
assertPromptAllowed(p, config) ==
    LET promptProcessing == IF config.present THEN config.promptProcessing
                            ELSE DefaultBlocklistConfig
    IN  assertPromptAllowedWithConfig(p,
            [blocklistEnabled |-> promptProcessing.blocklistEnabled,
             blocklistWords |-> promptProcessing.blocklistWords])

(***************************************************************************)
(* Inputs of the blocklist matcher                                         *)
(***************************************************************************)
MaxPromptLen == 3

MaxValueLen == 2

MaxLines == 2

PromptChars == {"a", "B", " "}

ValueChars == {"a", "b"}

RECURSIVE StringsUpTo(_, _)
StringsUpTo(chars, n) ==
    IF n = 0 THEN {<<>>}
    ELSE LET S == StringsUpTo(chars, n - 1)
         IN  S \cup { Append(x, c) : x \in S, c \in chars }

Cat == <<"c","a","t">>

TheCatSat == <<"t","h","e"," ","c","a","t"," ","s","a","t">>

Concatenate == <<"c","o","n","c","a","t","e","n","a","t","e">>

\* every way a rule line is written around a value
LineForms(v) ==
    { v,
      WORD_PREFIX \o v,
      SUBSTRING_PREFIX \o v,
      REGEX_PREFIXES[1] \o v,
      <<"/">> \o v \o <<"/">>,
      <<"/">> \o v \o <<"/", "g">> }

BoundedPrompts ==
    StringsUpTo(PromptChars, MaxPromptLen) \cup { <<"a", ".", "B">>, <<"a", "_">>, <<"(", "a">> }

BoundedValues ==
    StringsUpTo(ValueChars, MaxValueLen)
        \cup { <<".">>, <<"a", ".">>, <<"(">>, <<"(", "a">>, <<"(", "a", ")">>, <<"a", ")">> }

BoundedLines == UNION { LineForms(v) : v \in BoundedValues }

CuratedLines ==
    { Cat,
      <<"C","a","t">>,
      <<" ">> \o Cat \o <<" ">>,
      WORD_PREFIX \o Cat,
      SUBSTRING_PREFIX \o Cat,
      REGEX_PREFIXES[1] \o <<"(">> \o Cat,
      <<"R","e","g","e","x",":"," ">> \o <<"c",".","t">>,
      <<"/","C","A","T","/","g">>,
      <<"/","t","h","e","/","y","g","y">>,
      <<"s","a","t","\r">>,
      WORD_PREFIX,
      <<" ">> }

CuratedPrompts ==
    { TheCatSat, Concatenate, <<"C","A","T">>, <<"a"," ","c","a","t","\n","s","a","t">>, <<" ">> }

RECURSIVE SeqsUpTo(_, _)
SeqsUpTo(S, n) ==
    IF n = 0 THEN {<<>>}
    ELSE LET T == SeqsUpTo(S, n - 1)
         IN  T \cup { Append(x, e) : x \in T, e \in S }

CuratedTexts == { join(ls, <<"\n">>) : ls \in SeqsUpTo(CuratedLines, MaxLines) }

StoredConfig(enabled, text) ==
    [present |-> TRUE,
     promptProcessing |-> [blocklistEnabled |-> enabled,
                           blocklistWords |-> [defined |-> TRUE, text |-> text]]]

\* a configuration saved before prompt processing existed
AbsentConfig ==
    [present |-> FALSE,
     promptProcessing |-> [blocklistEnabled |-> "undefined",
                           blocklistWords |-> [defined |-> FALSE, text |-> <<>>]]]

\* blocking switched on with no rule text stored
NoWordsConfig ==
    [present |-> TRUE,
     promptProcessing |-> [blocklistEnabled |-> "true",
                           blocklistWords |-> [defined |-> FALSE, text |-> <<>>]]]

blocklistWordsOf(config) ==
    IF config.present /\ config.promptProcessing.blocklistWords.defined
    THEN config.promptProcessing.blocklistWords.text
    ELSE <<>>

blocklistEnabledOf(config) ==
    config.present /\ config.promptProcessing.blocklistEnabled = "true"

NoResult == [threw |-> FALSE, list |-> <<>>]

InitBlocklist ==
    /\ blPc = "ready"
    /\ blResult = NoResult
    /\ blError = NoError
    /\ \/ /\ blPrompt \in BoundedPrompts
          /\ systemConfig \in { StoredConfig("true", line) : line \in BoundedLines }
       \/ /\ blPrompt \in CuratedPrompts
          /\ systemConfig \in
                { StoredConfig("true", text) : text \in CuratedTexts }
                \cup { StoredConfig(e, line) : e \in {"false", "undefined"}, line \in CuratedLines }
                \cup {AbsentConfig, NoWordsConfig}

\* a direct call of findBlockedWords with the stored rule text
FindBlockedWordsCall ==
    /\ blPc = "ready"
    /\ blResult' = findBlockedWords(blPrompt, blocklistWordsOf(systemConfig))
    /\ blPc' = "found"
    /\ UNCHANGED <<systemConfig, blPrompt, blError>>
    /\ UNCHANGED <<ppVars, vdVars, ccVars, adVars, gmVars>>

\* assertPromptAllowed(prompt), as the generation routes call it
AssertPromptAllowedCall ==
    /\ blPc = "ready"
    /\ blError' = assertPromptAllowed(blPrompt, systemConfig)
    /\ blPc' = "asserted"
    /\ UNCHANGED <<systemConfig, blPrompt, blResult>>
    /\ UNCHANGED <<ppVars, vdVars, ccVars, adVars, gmVars>>

(***************************************************************************)
(* Prompt processor (lib/prompt-processor), first and second version.      *)
(* An instruction or model id is a string; an error is its message.  A     *)
(* model's answer is the message content of its first choice: a string or  *)
(* nothing.  Code fences and JSON objects are outside the answer alphabet. *)
(***************************************************************************)
DEFAULT_FILTER_PROMPT == <<"You are a safety prompt filter for video generation. ...">>

DEFAULT_TRANSLATE_PROMPT == <<"Translate the user prompt into clear, natural English for video generation. ...">>

EMPTY_PROMPT_PROCESSOR_ERROR == "Prompt processor returned empty content"

Undefined == [defined |-> FALSE, text |-> <<>>]

Defined(text) == [defined |-> TRUE, text |-> text]

\* typeof raw === 'string' ? raw.trim() : ''
normalizeModelText(raw) == IF raw.defined THEN trim(raw.text) ELSE <<>>

IsQuote(c) == c \in {"'", "\""}

\* cleaned.replace(/^['"]|['"]$/g, '')
stripQuotes(cleaned) ==
    LET front == IF cleaned # <<>> /\ IsQuote(Head(cleaned)) THEN Tail(cleaned) ELSE cleaned
    IN  IF front # <<>> /\ IsQuote(front[Len(front)]) THEN SubSeq(front, 1, Len(front) - 1)
        ELSE front

extractFinalPrompt(raw) ==
    LET cleaned == trim(raw)
    IN  IF cleaned = <<>> THEN <<>> ELSE trim(stripQuotes(cleaned))

Returned(value) == [ok |-> TRUE, fetched |-> TRUE, value |-> value, message |-> ""]

Thrown(message, fetched) == [ok |-> FALSE, fetched |-> fetched, value |-> <<>>, message |-> message]

\* upstream: [available, ok, errorMessage, content]: the chat model's row and
\* what its endpoint answers
runPromptCompletion(modelId, instruction, inputPrompt, upstream) ==
    IF ~upstream.available
    THEN Thrown("Prompt processing model is unavailable", FALSE)
    ELSE IF ~upstream.ok
    THEN Thrown(IF upstream.errorMessage # "" THEN upstream.errorMessage
                ELSE "Prompt processor API failed", TRUE)
    ELSE LET result == extractFinalPrompt(normalizeModelText(upstream.content))
         IN  IF result = <<>> THEN Thrown(EMPTY_PROMPT_PROCESSOR_ERROR, TRUE)
             ELSE Returned(result)

\* an isPromptProcessorEmptyContentError that recognises no error
isPromptProcessorEmptyContentError_never(message) == FALSE

\* error.message.includes(EMPTY_PROMPT_PROCESSOR_ERROR), over the messages of
\* the model
isPromptProcessorEmptyContentError(message) ==
    message \in { EMPTY_PROMPT_PROCESSOR_ERROR,
                  "upstream: Prompt processor returned empty content" }

runPromptCompletionWithFallback(modelId, instruction, inputPrompt, upstream) ==
    LET r == runPromptCompletion(modelId, instruction, inputPrompt, upstream)
    IN  IF ~r.ok /\ isPromptProcessorEmptyContentError(r.message)
        THEN [ok |-> TRUE, fetched |-> r.fetched, value |-> inputPrompt, message |-> ""]
        ELSE r

\* the completion call processVideoPrompt makes in each version
runStep(variant, modelId, instruction, inputPrompt, upstream) ==
    IF variant = 1 THEN runPromptCompletion(modelId, instruction, inputPrompt, upstream)
    ELSE runPromptCompletionWithFallback(modelId, instruction, inputPrompt, upstream)

orDefault(text, default) == IF text = <<>> THEN default ELSE text

normalizeOptions(config) ==
    [filterEnabled |-> config.filterEnabled,
     filterModelId |-> trim(config.filterModelId),
     filterPrompt |-> trim(orDefault(config.filterPrompt, DEFAULT_FILTER_PROMPT)),
     translateEnabled |-> config.translateEnabled,
     translateModelId |-> trim(config.translateModelId),
     translatePrompt |-> trim(orDefault(config.translatePrompt, DEFAULT_TRANSLATE_PROMPT))]

\* validateOptions without the filter requirement of translation
validateOptions_noRefilterCheck(options) ==
    IF options.filterEnabled /\ (options.filterModelId = <<>> \/ options.filterPrompt = <<>>)
    THEN "Prompt filter is enabled but filter model or prompt is not configured"
    ELSE IF options.translateEnabled
            /\ (options.translateModelId = <<>> \/ options.translatePrompt = <<>>)
    THEN "Prompt translation is enabled but translation model or prompt is not configured"
    ELSE ""

\* the message validateOptions throws, "" when it returns
validateOptions(options) ==
    IF options.filterEnabled /\ (options.filterModelId = <<>> \/ options.filterPrompt = <<>>)
    THEN "Prompt filter is enabled but filter model or prompt is not configured"
    ELSE IF options.translateEnabled
            /\ (options.translateModelId = <<>> \/ options.translatePrompt = <<>>)
    THEN "Prompt translation is enabled but translation model or prompt is not configured"
    ELSE IF options.translateEnabled
            /\ (options.filterModelId = <<>> \/ options.filterPrompt = <<>>)
    THEN "Prompt translation requires filter model and filter prompt to sanitize translated content"
    ELSE ""

DefaultPromptProcessing ==
    [filterEnabled |-> FALSE, filterModelId |-> <<>>, filterPrompt |-> DEFAULT_FILTER_PROMPT,
     translateEnabled |-> FALSE, translateModelId |-> <<>>,
     translatePrompt |-> DEFAULT_TRANSLATE_PROMPT]

\* normalizeOptions(config.promptProcessing || {...})
optionsOf(config) ==
    normalizeOptions(IF config.present THEN config.promptProcessing ELSE DefaultPromptProcessing)

NoOutcome ==
    [kind |-> "none", message |-> "", originalPrompt |-> <<>>, filteredPrompt |-> Undefined,
     translatedPrompt |-> Undefined, processedPrompt |-> <<>>]

ErrorOutcome(message) == [NoOutcome EXCEPT !.kind = "error", !.message = message]

ResultOutcome(basePrompt, state) ==
    [kind |-> "result", message |-> "", originalPrompt |-> basePrompt,
     filteredPrompt |-> state.filteredPrompt, translatedPrompt |-> state.translatedPrompt,
     processedPrompt |-> state.currentPrompt]

NoLocals == [currentPrompt |-> <<>>, filteredPrompt |-> Undefined, translatedPrompt |-> Undefined]

\* the inputs: stored options, prompts, and what a chat model answers
FilterModelIds == { <<>>, <<" ">>, <<"f">> }

TranslateModelIds == { <<>>, <<"t">> }

FilterPrompts == { <<>>, <<" ">>, <<"s","a","f","e">> }

TranslatePrompts == { <<>>, <<" ">> }

PromptProcessingConfigs ==
    { [present |-> TRUE,
       promptProcessing |->
           [filterEnabled |-> fe, filterModelId |-> fm, filterPrompt |-> fp,
            translateEnabled |-> te, translateModelId |-> tm, translatePrompt |-> tp]] :
        fe \in BOOLEAN, fm \in FilterModelIds, fp \in FilterPrompts,
        te \in BOOLEAN, tm \in TranslateModelIds, tp \in TranslatePrompts }
    \cup { [present |-> FALSE, promptProcessing |-> DefaultPromptProcessing] }

OriginalPrompts == { <<>>, <<" ">>, <<"p">>, <<" ","p","\n">> }

AnswerContents ==
    { Undefined, Defined(<<>>), Defined(<<" ">>), Defined(<<"'">>), Defined(<<"x">>),
      Defined(<<" ","y"," ">>), Defined(<<"\"","z","\"">>) }

Upstreams ==
    { [available |-> FALSE, ok |-> FALSE, errorMessage |-> "", content |-> Undefined],
      [available |-> TRUE, ok |-> FALSE, errorMessage |-> "", content |-> Undefined],
      [available |-> TRUE, ok |-> FALSE,
       errorMessage |-> "upstream: Prompt processor returned empty content",
       content |-> Undefined] }
    \cup { [available |-> TRUE, ok |-> TRUE, errorMessage |-> "", content |-> c] :
             c \in AnswerContents }

NoRequest ==
    [modelId |-> <<>>, model |-> <<>>, prompt |-> <<>>, aspectRatio |-> <<>>,
     duration |-> <<>>, files |-> <<>>]

NoModelConfig ==
    [found |-> FALSE,
     model |-> [enabled |-> FALSE, apiModel |-> <<>>, defaultAspectRatio |-> <<>>,
                defaultDuration |-> <<>>, baseUrl |-> <<>>, apiKey |-> <<>>],
     channel |-> [id |-> "", type |-> "", enabled |-> FALSE, baseUrl |-> <<>>,
                  apiKey |-> <<>>]]

NoPricing == [soraVideo10s |-> 0, soraVideo15s |-> 0, soraVideo25s |-> 0]

NoUpstream ==
    [kind |-> "none", content |-> <<>>, url |-> <<>>, progress |-> <<>>, channelId |-> ""]

NoGenerateOutcome ==
    [kind |-> "none", message |-> "", type |-> "", url |-> <<>>, cost |-> 0,
     videoChannelId |-> ""]

VideoOff ==
    /\ vdRequest = NoRequest
    /\ vdModelConfig = NoModelConfig
    /\ vdPricing = NoPricing
    /\ vdUpstream = NoUpstream
    /\ vdPc = "off"
    /\ vdRoute = "none"
    /\ vdCalls = <<>>
    /\ vdProgress = <<>>
    /\ vdOutcome = NoGenerateOutcome

ProcessorOff ==
    /\ ppVariant = 1
    /\ ppConfig = [present |-> FALSE, promptProcessing |-> DefaultPromptProcessing]
    /\ ppOriginal = <<>>
    /\ ppPc = "off"
    /\ ppState = NoLocals
    /\ ppCalls = <<>>
    /\ ppOutcome = NoOutcome

BlocklistOff ==
    /\ systemConfig = AbsentConfig
    /\ blPrompt = <<>>
    /\ blPc = "off"
    /\ blResult = NoResult
    /\ blError = NoError

(***************************************************************************)
(* app/api/generate/character-card/route.ts: the state before any request  *)
(***************************************************************************)
Reqs == {1, 2}

NoCardConfig == [soraBaseUrl |-> <<>>, soraApiKey |-> <<>>]

NoCardUpstream ==
    [kind |-> "none", ok |-> FALSE, status |-> <<>>, hasBody |-> FALSE, chunks |-> <<>>,
     ending |-> "done", message |-> <<>>]

NoCardInput ==
    [session |-> FALSE, userId |-> "", jsonBody |-> FALSE, videoBase64 |-> <<>>,
     firstFrameBase64 |-> <<>>, userExists |-> FALSE, upstream |-> NoCardUpstream]

NoPending == [kind |-> "none", arg |-> <<>>]

\* the locals of one POST: its position, the response status, card.id, what the
\* controller has enqueued, the controller's state, and the reader's locals
NewCardRequest(pc) ==
    [pc |-> pc, status |-> 0, error |-> <<>>, cardId |-> 0, events |-> <<>>,
     stream |-> "none", conn |-> "none", next |-> 0, buffer |-> <<>>,
     characterName |-> <<>>, finalContent |-> <<>>, pending |-> NoPending]

CardOff ==
    /\ ccConfig = NoCardConfig
    /\ ccInput = [r \in Reqs |-> NoCardInput]
    /\ ccReq = [r \in Reqs |-> NewCardRequest("off")]
    /\ ccCards = {}
    /\ ccNextId = 1

(***************************************************************************)
(* The admin routes of video models and of the system configuration, and   *)
(* groupModels: the state before any request                               *)
(***************************************************************************)
NoStoredConfig == [soraBackendUrl |-> <<>>, soraBackendToken |-> <<>>]

\* a parsed JSON body or query: every property is absent, <<>>, or present, <<value>>
NoAdminBody ==
    [valid |-> FALSE, id |-> <<>>, channelId |-> <<>>, name |-> <<>>, description |-> <<>>,
     apiModel |-> <<>>, baseUrl |-> <<>>, apiKey |-> <<>>, features |-> <<>>,
     aspectRatios |-> <<>>, durations |-> <<>>, defaultAspectRatio |-> <<>>,
     defaultDuration |-> <<>>, videoConfigObject |-> <<>>, highlight |-> <<>>,
     enabled |-> <<>>, sortOrder |-> <<>>, soraBackendUrl |-> <<>>, soraBackendToken |-> <<>>]

NoAdminRequest == [handler |-> "none", role |-> "none", body |-> NoAdminBody]

NoAdminResponse == [status |-> 0, error |-> "", data |-> <<>>]

AdminOff ==
    /\ adStore = [config |-> NoStoredConfig, models |-> {}, nextId |-> 1]
    /\ adRequest = NoAdminRequest
    /\ adResponse = NoAdminResponse
    /\ adCalls = <<>>

NoGroupResult == [grouped |-> <<>>, ungrouped |-> <<>>]

GroupOff ==
    /\ gmModels = <<>>
    /\ gmPc = "off"
    /\ gmIndex = 0
    /\ gmGrouped = <<>>
    /\ gmUngrouped = <<>>
    /\ gmProcessedIds = {}
    /\ gmResult = NoGroupResult

InitProcessor ==
    /\ ppVariant \in {1, 2}
    /\ ppConfig \in PromptProcessingConfigs
    /\ ppOriginal \in OriginalPrompts
    /\ ppPc = "idle"
    /\ ppState = NoLocals
    /\ ppCalls = <<>>
    /\ ppOutcome = NoOutcome
    /\ BlocklistOff
    /\ VideoOff
    /\ CardOff
    /\ AdminOff
    /\ GroupOff

\* processVideoPrompt up to its first completion call
ProcessVideoPromptStart ==
    LET basePrompt == trim(ppOriginal)
        options == optionsOf(ppConfig)
        invalid == validateOptions(options)
        locals == [NoLocals EXCEPT !.currentPrompt = basePrompt]
    IN  /\ ppPc = "idle"
        /\ IF basePrompt = <<>> \/ (~options.filterEnabled /\ ~options.translateEnabled)
           THEN /\ ppPc' = "returned"
                /\ ppOutcome' = ResultOutcome(basePrompt, locals)
                /\ ppState' = locals
           ELSE IF invalid # ""
           THEN /\ ppPc' = "failed"
                /\ ppOutcome' = ErrorOutcome(invalid)
                /\ ppState' = ppState
           ELSE /\ ppPc' = IF options.filterEnabled THEN "filter" ELSE "translate"
                /\ ppOutcome' = ppOutcome
                /\ ppState' = locals
        /\ UNCHANGED <<ppVariant, ppConfig, ppOriginal, ppCalls>>
        /\ UNCHANGED <<blVars, vdVars, ccVars, adVars, gmVars>>

Call(step, modelId, instruction, inputPrompt, upstream) ==
    [step |-> step, modelId |-> modelId, instruction |-> instruction,
     inputPrompt |-> inputPrompt, upstream |-> upstream]

\* one completion call of processVideoPrompt and what follows it up to the
\* next call, the return or the throw
CompletionStep(step, modelId, instruction, upstream) ==
    LET options == optionsOf(ppConfig)
        r == runStep(ppVariant, modelId, instruction, ppState.currentPrompt, upstream)
        locals == IF step = "translate"
                  THEN [ppState EXCEPT !.currentPrompt = r.value,
                                       !.translatedPrompt = Defined(r.value)]
                  ELSE [ppState EXCEPT !.currentPrompt = r.value,
                                       !.filteredPrompt = Defined(r.value)]
        last == step = "refilter" \/ (step = "filter" /\ ~options.translateEnabled)
    IN  /\ ppPc = step
        /\ ppCalls' = IF r.fetched
                      THEN Append(ppCalls, Call(step, modelId, instruction,
                                                ppState.currentPrompt, upstream))
                      ELSE ppCalls
        /\ IF ~r.ok
           THEN /\ ppPc' = "failed"
                /\ ppOutcome' = ErrorOutcome(r.message)
                /\ ppState' = ppState
           ELSE /\ ppState' = locals
                /\ ppPc' = IF last THEN "returned"
                           ELSE IF step = "filter" THEN "translate" ELSE "refilter"
                /\ ppOutcome' = IF last THEN ResultOutcome(trim(ppOriginal), locals)
                                ELSE ppOutcome
        /\ UNCHANGED <<ppVariant, ppConfig, ppOriginal>>
        /\ UNCHANGED <<blVars, vdVars, ccVars, adVars, gmVars>>

\* if (options.filterEnabled) { currentPrompt = await run...(filterModelId, ...) }
FilterRewrite ==
    \E upstream \in Upstreams :
        CompletionStep("filter", optionsOf(ppConfig).filterModelId,
                       optionsOf(ppConfig).filterPrompt, upstream)

\* translatedPrompt = await run...(translateModelId, translatePrompt, currentPrompt)
Translate ==
    \E upstream \in Upstreams :
        CompletionStep("translate", optionsOf(ppConfig).translateModelId,
                       optionsOf(ppConfig).translatePrompt, upstream)

\* currentPrompt = await run...(filterModelId, filterPrompt, currentPrompt)
FilterTranslated ==
    \E upstream \in Upstreams :
        CompletionStep("refilter", optionsOf(ppConfig).filterModelId,
                       optionsOf(ppConfig).filterPrompt, upstream)

NextProcessor ==
    \/ ProcessVideoPromptStart
    \/ FilterRewrite
    \/ Translate
    \/ FilterTranslated

SpecProcessor == InitProcessor /\ [][NextProcessor]_vars

(***************************************************************************)
(* Video channel adapter (generateWithSora and the routes behind it)       *)
(***************************************************************************)
Digits == <<"0","1","2","3","4","5","6","7","8","9">>

DigitValue(c) == (CHOOSE i \in 1..10 : Digits[i] = c) - 1

\* Number.parseInt(digits, 10) of a run of decimal digits
RECURSIVE parseInt(_)
parseInt(digits) ==
    IF digits = <<>> THEN 0
    ELSE parseInt(SubSeq(digits, 1, Len(digits) - 1)) * 10 + DigitValue(digits[Len(digits)])

\* duration.match(/(\d+)/): the first run of digits, <<>> when there is none
firstDigits(s) ==
    LET idx == { i \in 1..Len(s) : s[i] \in DigitSet }
    IN  IF idx = {} THEN <<>>
        ELSE LET from == SetMin(idx)
                 to == SetMax({ j \in from..Len(s) : \A k \in from..j : s[k] \in DigitSet })
             IN  SubSeq(s, from, to)

normalizeDurationSeconds(duration) ==
    IF duration = <<>> THEN 10
    ELSE LET matched == firstDigits(duration)
         IN  IF matched = <<>> THEN 10
             ELSE IF parseInt(matched) <= 0 THEN 10
             ELSE parseInt(matched)

Portrait == <<"p","o","r","t","r","a","i","t">>

Landscape == <<"l","a","n","d","s","c","a","p","e">>

\* a mapFlowModel that looks at the image mode before the reference mode
mapFlowModel_imageFirst(modelName, aspectRatio, duration) ==
    LET portrait == toLowerCase(aspectRatio) = Portrait
        long == normalizeDurationSeconds(duration) >= 15
        name == toLowerCase(modelName)
    IN  IF includes(name, <<"i","2","v">>) \/ includes(name, <<"i","m","a","g","e">>)
        THEN IF long
             THEN IF portrait THEN <<"v","e","o","_","2","_","1","_","f","a","s","t","_","d","_","1","5","_","i","2","v","_","p","o","r","t","r","a","i","t">>
                  ELSE <<"v","e","o","_","2","_","1","_","f","a","s","t","_","d","_","1","5","_","i","2","v","_","l","a","n","d","s","c","a","p","e">>
             ELSE IF portrait THEN <<"v","e","o","_","3","_","1","_","i","2","v","_","s","_","f","a","s","t","_","f","l","_","p","o","r","t","r","a","i","t">>
                  ELSE <<"v","e","o","_","3","_","1","_","i","2","v","_","s","_","f","a","s","t","_","f","l","_","l","a","n","d","s","c","a","p","e">>
        ELSE IF includes(name, <<"r","2","v">>) \/ includes(name, <<"r","e","f","e","r","e","n","c","e">>)
        THEN IF portrait THEN <<"v","e","o","_","3","_","0","_","r","2","v","_","f","a","s","t","_","p","o","r","t","r","a","i","t">> ELSE <<"v","e","o","_","3","_","0","_","r","2","v","_","f","a","s","t","_","l","a","n","d","s","c","a","p","e">>
        ELSE IF long
        THEN IF portrait THEN <<"v","e","o","_","2","_","1","_","f","a","s","t","_","d","_","1","5","_","t","2","v","_","p","o","r","t","r","a","i","t">>
             ELSE <<"v","e","o","_","2","_","1","_","f","a","s","t","_","d","_","1","5","_","t","2","v","_","l","a","n","d","s","c","a","p","e">>
        ELSE IF portrait THEN <<"v","e","o","_","3","_","1","_","t","2","v","_","f","a","s","t","_","p","o","r","t","r","a","i","t">> ELSE <<"v","e","o","_","3","_","1","_","t","2","v","_","f","a","s","t","_","l","a","n","d","s","c","a","p","e">>

mapFlowModel(modelName, aspectRatio, duration) ==
    LET ratio == toLowerCase(aspectRatio)
        seconds == normalizeDurationSeconds(duration)
        isI2V == includes(toLowerCase(modelName), <<"i","2","v">>)
                 \/ includes(toLowerCase(modelName), <<"i","m","a","g","e">>)
        isR2V == includes(toLowerCase(modelName), <<"r","2","v">>)
                 \/ includes(toLowerCase(modelName), <<"r","e","f","e","r","e","n","c","e">>)
    IN  IF isR2V
        THEN IF ratio = Portrait THEN <<"v","e","o","_","3","_","0","_","r","2","v","_","f","a","s","t","_","p","o","r","t","r","a","i","t">>
             ELSE <<"v","e","o","_","3","_","0","_","r","2","v","_","f","a","s","t","_","l","a","n","d","s","c","a","p","e">>
        ELSE IF isI2V
        THEN IF seconds >= 15
             THEN IF ratio = Portrait THEN <<"v","e","o","_","2","_","1","_","f","a","s","t","_","d","_","1","5","_","i","2","v","_","p","o","r","t","r","a","i","t">>
                  ELSE <<"v","e","o","_","2","_","1","_","f","a","s","t","_","d","_","1","5","_","i","2","v","_","l","a","n","d","s","c","a","p","e">>
             ELSE IF ratio = Portrait THEN <<"v","e","o","_","3","_","1","_","i","2","v","_","s","_","f","a","s","t","_","f","l","_","p","o","r","t","r","a","i","t">>
                  ELSE <<"v","e","o","_","3","_","1","_","i","2","v","_","s","_","f","a","s","t","_","f","l","_","l","a","n","d","s","c","a","p","e">>
        ELSE IF seconds >= 15
        THEN IF ratio = Portrait THEN <<"v","e","o","_","2","_","1","_","f","a","s","t","_","d","_","1","5","_","t","2","v","_","p","o","r","t","r","a","i","t">>
             ELSE <<"v","e","o","_","2","_","1","_","f","a","s","t","_","d","_","1","5","_","t","2","v","_","l","a","n","d","s","c","a","p","e">>
        ELSE IF ratio = Portrait THEN <<"v","e","o","_","3","_","1","_","t","2","v","_","f","a","s","t","_","p","o","r","t","r","a","i","t">>
             ELSE <<"v","e","o","_","3","_","1","_","t","2","v","_","f","a","s","t","_","l","a","n","d","s","c","a","p","e">>

GrokBase == <<"g","r","o","k","-","i","m","a","g","i","n","e","-","1",".","0","-","v","i","d","e","o">>

\* a mapGrokModel that rebuilds every id
mapGrokModel_alwaysRebuilt(modelName, aspectRatio, duration) ==
    GrokBase \o <<"-">>
        \o (IF toLowerCase(aspectRatio) = Portrait THEN Portrait ELSE Landscape) \o <<"-">>
        \o (IF normalizeDurationSeconds(duration) >= 15 THEN <<"1","5","s">> ELSE <<"1","0","s">>)

mapGrokModel(modelName, aspectRatio, duration) ==
    LET ratio == toLowerCase(aspectRatio)
        seconds == normalizeDurationSeconds(duration)
        orientation == IF ratio = Portrait THEN Portrait ELSE Landscape
        finalSeconds == IF seconds >= 15 THEN <<"1","5","s">> ELSE <<"1","0","s">>
    IN  IF includes(toLowerCase(modelName), GrokBase \o <<"-">>)
        THEN modelName
        ELSE GrokBase \o <<"-">> \o orientation \o <<"-">> \o finalSeconds

\* request.aspectRatio || model.defaultAspectRatio || 'landscape'
effectiveRatio(model, request) ==
    orDefault(request.aspectRatio, orDefault(model.defaultAspectRatio, Landscape))

\* request.duration || model.defaultDuration || '10s'
effectiveDuration(model, request) ==
    orDefault(request.duration, orDefault(model.defaultDuration, <<"1","0","s">>))

mapChannelModel(channelType, model, request) ==
    LET ratio == effectiveRatio(model, request)
        duration == effectiveDuration(model, request)
    IN  IF channelType = "flow2api" THEN mapFlowModel(model.apiModel, ratio, duration)
        ELSE IF channelType = "grok2api" THEN mapGrokModel(model.apiModel, ratio, duration)
        ELSE orDefault(model.apiModel, request.model)

getTypeAndCost(model, pricing) ==
    IF includes(model, <<"2","5","s">>) \/ includes(model, <<"2","5">>)
    THEN [type |-> "sora-video", cost |-> pricing.soraVideo25s]
    ELSE IF includes(model, <<"1","5","s">>) \/ includes(model, <<"1","5">>)
    THEN [type |-> "sora-video", cost |-> pricing.soraVideo15s]
    ELSE [type |-> "sora-video", cost |-> pricing.soraVideo10s]

parseLegacySoraModel(model) ==
    LET orientation == IF includes(model, Portrait) THEN "portrait" ELSE "landscape"
    IN  [apiModel |-> IF includes(model, <<"p","r","o">>) THEN "sora-2-pro" ELSE "sora-2",
         orientation |-> orientation,
         seconds |-> IF includes(model, <<"2","5","s">>) \/ includes(model, <<"2","5">>) THEN "25"
                     ELSE IF includes(model, <<"1","5","s">>) \/ includes(model, <<"1","5">>) THEN "15"
                     ELSE "10",
         size |-> IF orientation = "portrait" THEN "720x1280" ELSE "1280x720"]

\* a regular expression's literal lit matches s at position i
litAt(s, i, lit) == i >= 1 /\ i + Len(lit) - 1 <= Len(s) /\ SubSeq(s, i, i + Len(lit) - 1) = lit

\* JSON.stringify({ type, url }), for a type and url without quotes or backslashes
buildMediaJson(type, url) == <<"{","\"","t","y","p","e","\"",":","\"">> \o type \o <<"\"",",","\"","u","r","l","\"",":","\"">> \o url \o <<"\"","}">>

NoMedia == [found |-> FALSE, type |-> <<>>, url |-> <<>>]

\* the position of the first `"' of s at or after i, 0 when there is none
quoteFrom(s, i) ==
    LET at == { k \in i..Len(s) : s[k] = "\"" }
    IN  IF at = {} THEN 0 ELSE SetMin(at)

\* JSON.parse is modelled on the envelopes buildMediaJson writes; on every other
\* content of the model it throws or yields no object with a type and a url
parseMediaJsonFromContent(content) ==
    LET open == <<"{","\"","t","y","p","e","\"",":","\"">>
        mid == <<"\"",",","\"","u","r","l","\"",":","\"">>
        close == <<"\"","}">>
        typeEnd == quoteFrom(content, Len(open) + 1)
        urlStart == typeEnd + Len(mid)
        urlEnd == quoteFrom(content, urlStart)
    IN  IF /\ litAt(content, 1, open)
           /\ typeEnd > 0
           /\ litAt(content, typeEnd, mid)
           /\ urlEnd > 0
           /\ litAt(content, urlEnd, close)
           /\ urlEnd + Len(close) - 1 = Len(content)
        THEN LET type == SubSeq(content, Len(open) + 1, typeEnd - 1)
                 url == SubSeq(content, urlStart, urlEnd - 1)
             IN  IF type \in {<<"v","i","d","e","o">>, <<"i","m","a","g","e">>} /\ trim(url) # <<>>
                 THEN [found |-> TRUE, type |-> type, url |-> trim(url)]
                 ELSE NoMedia
        ELSE NoMedia

IsQuoteChar(c) == c \in {"'", "\""}

\* ['"]([^'"]+)['"] at position k: the end of the capture, 0 when it does not match
quotedEnd(s, k) ==
    LET closing == { e \in (k + 1)..Len(s) : IsQuoteChar(s[e]) }
    IN  IF k >= 1 /\ k <= Len(s) /\ IsQuoteChar(s[k]) /\ closing # {} /\ SetMin(closing) > k + 1
        THEN SetMin(closing) - 1
        ELSE 0

\* \s(?:name|...)=['"]([^'"]+)['"] under the i flag at position j: the capture's
\* first and last position, <<0, 0>> when it does not match
attributeAt(s, j, names) ==
    LET lower == toLowerCase(s)
        fits == { name \in names :
                    /\ j >= 1 /\ j <= Len(s) /\ IsWhitespace(s[j])
                    /\ litAt(lower, j + 1, name \o <<"=">>)
                    /\ quotedEnd(s, j + Len(name) + 2) > 0 }
    IN  IF fits = {} THEN <<0, 0>>
        ELSE LET name == CHOOSE n \in fits : TRUE
             IN  <<j + Len(name) + 3, quotedEnd(s, j + Len(name) + 2)>>

NoMatch == [matched |-> FALSE, text |-> <<>>]

\* s.match(/<tag[^>]*\s(?:names)=['"]([^'"]+)['"]/i): capture 1 of the leftmost
\* match, with [^>]* greedy
matchTagAttribute(s, tag, names) ==
    LET lower == toLowerCase(s)
        spans == { <<i, j>> \in (1..Len(s)) \X (1..Len(s)) :
                     /\ litAt(lower, i, tag)
                     /\ j >= i + Len(tag)
                     /\ \A k \in (i + Len(tag))..(j - 1) : s[k] # ">"
                     /\ attributeAt(s, j, names) # <<0, 0>> }
    IN  IF spans = {} THEN NoMatch
        ELSE LET i == SetMin({ span[1] : span \in spans })
                 j == SetMax({ span[2] : span \in { sp \in spans : sp[1] = i } })
                 capture == attributeAt(s, j, names)
             IN  [matched |-> TRUE, text |-> SubSeq(s, capture[1], capture[2])]

\* https?:\/\/ under the i flag at position i: the position after it, 0 when
\* it does not match
schemeEnd(s, i) ==
    LET lower == toLowerCase(s)
    IN  IF litAt(lower, i, <<"h","t","t","p","s",":","/","/">>) THEN i + 8
        ELSE IF litAt(lower, i, <<"h","t","t","p",":","/","/">>) THEN i + 7
        ELSE 0

\* the longest run of characters outside `stops' that starts at position from
runEnd(s, from, stops) ==
    SetMax({from - 1} \cup { e \in from..Len(s) : \A k \in from..e : s[k] \notin stops })

\* s.match(/!\[[^\]]*]\((https?:\/\/[^)]+)\)/i): capture 1 of the leftmost match
matchMarkdownImage(s) ==
    LET starts == { i \in 1..Len(s) :
                      /\ litAt(s, i, <<"!","[">>)
                      /\ LET close == runEnd(s, i + 2, {"]"}) + 1
                             after == schemeEnd(s, close + 2)
                             last == runEnd(s, after, {")"})
                         IN  /\ litAt(s, close, <<"]","(">>)
                             /\ after > 0
                             /\ last >= after
                             /\ litAt(s, last + 1, <<")">>) }
    IN  IF starts = {} THEN NoMatch
        ELSE LET i == SetMin(starts)
                 close == runEnd(s, i + 2, {"]"}) + 1
             IN  [matched |-> TRUE,
                  text |-> SubSeq(s, close + 2, runEnd(s, schemeEnd(s, close + 2), {")"}))]

\* the characters that end a bare URL; the backquote, which also ends one, is
\* outside the alphabet of the contents
UrlStops == {" ", "\t", "\n", "\r", "\"", "'", "<", ">"}

\* s.match(/https?:\/\/[^\s"'<>]+/i): the leftmost match
matchBareUrl(s) ==
    LET starts == { i \in 1..Len(s) :
                      /\ schemeEnd(s, i) > 0
                      /\ runEnd(s, schemeEnd(s, i), UrlStops) >= schemeEnd(s, i) }
    IN  IF starts = {} THEN NoMatch
        ELSE LET i == SetMin(starts)
             IN  [matched |-> TRUE, text |-> SubSeq(s, i, runEnd(s, schemeEnd(s, i), UrlStops))]

VideoExtensions == {<<".","m","p","4">>, <<".","m","o","v">>, <<".","w","e","b","m">>, <<".","m","k","v">>}

\* /(\.mp4|\.mov|\.webm|\.mkv)(\?|#|$)/.test(lower)
hasVideoExtension(lower) ==
    \E ext \in VideoExtensions : \E i \in 1..Len(lower) :
        /\ litAt(lower, i, ext)
        /\ \/ i + Len(ext) - 1 = Len(lower)
           \/ lower[i + Len(ext)] \in {"?", "#"}

NoUrl == [found |-> FALSE, url |-> <<>>]

Url(url) == [found |-> TRUE, url |-> url]

\* an extractor that takes any text for a URL
extractVideoUrlFromText_anyText(content) == Url(trim(content))

extractVideoUrlFromText(content) ==
    LET trimmed == trim(content)
        mediaJson == parseMediaJsonFromContent(trimmed)
        htmlVideoMatch == matchTagAttribute(trimmed, <<"<","v","i","d","e","o">>, {<<"s","r","c">>, <<"p","o","s","t","e","r">>})
        htmlSourceMatch == matchTagAttribute(trimmed, <<"<","s","o","u","r","c","e">>, {<<"s","r","c">>})
        markdownVideoMatch == matchMarkdownImage(trimmed)
        urlMatch == matchBareUrl(trimmed)
        candidate == trim(urlMatch.text)
        lower == toLowerCase(candidate)
    IN  IF trimmed = <<>> THEN NoUrl
        ELSE IF mediaJson.found /\ mediaJson.type = <<"v","i","d","e","o">> THEN Url(mediaJson.url)
        ELSE IF htmlVideoMatch.matched /\ trim(htmlVideoMatch.text) # <<>>
        THEN Url(trim(htmlVideoMatch.text))
        ELSE IF htmlSourceMatch.matched /\ trim(htmlSourceMatch.text) # <<>>
        THEN Url(trim(htmlSourceMatch.text))
        ELSE IF markdownVideoMatch.matched /\ trim(markdownVideoMatch.text) # <<>>
        THEN Url(trim(markdownVideoMatch.text))
        ELSE IF ~urlMatch.matched THEN NoUrl
        ELSE IF hasVideoExtension(lower) THEN Url(candidate)
        ELSE IF includes(lower, <<"/","v","i","d","e","o","/">>) THEN Url(candidate)
        ELSE IF includes(lower, <<"v","i","d","e","o">>) THEN Url(candidate)
        ELSE Url(candidate)

NoParse == [apiModel |-> "", orientation |-> "", seconds |-> "", size |-> ""]

IsImageFile(file) == startsWith(file.mimeType, <<"i","m","a","g","e","/">>)

\* the part content.push adds for an image file
ImagePart(file) ==
    [type |-> "image_url", text |-> <<>>,
     url |-> <<"d","a","t","a",":">> \o file.mimeType \o <<";","b","a","s","e","6","4",",">> \o file.data]

\* a buildVideoMessages that attaches every file
buildVideoMessages_everyFile(request) ==
    << [role |-> "user",
        content |-> << [type |-> "text", text |-> orDefault(request.prompt, <<"G","e","n","e","r","a","t","e"," ","a"," ","v","i","d","e","o">>),
                        url |-> <<>>] >>
                    \o [i \in 1..Len(request.files) |-> ImagePart(request.files[i])]] >>

\* request: the ExternalVideoPayload, of which prompt and files are read
buildVideoMessages(request) ==
    LET images == SelectSeq(request.files, IsImageFile)
    IN  << [role |-> "user",
            content |-> << [type |-> "text",
                            text |-> orDefault(request.prompt, <<"G","e","n","e","r","a","t","e"," ","a"," ","v","i","d","e","o">>),
                            url |-> <<>>] >>
                        \o [i \in 1..Len(images) |-> ImagePart(images[i])]] >>

\* the POST of generateViaExternalChat
ChatCall(apiUrl, resolvedModel, messages) ==
    [kind |-> "chat", apiUrl |-> apiUrl, model |-> resolvedModel, videoRequest |-> NoParse,
     messages |-> messages, stream |-> FALSE]

\* the generateVideo call of generateViaSoraApi, for a request with this model
SoraCall(model) ==
    [kind |-> "sora", apiUrl |-> <<>>, model |-> model,
     videoRequest |-> parseLegacySoraModel(model), messages |-> <<>>, stream |-> FALSE]

GenerateError(message) == [NoGenerateOutcome EXCEPT !.kind = "error", !.message = message]

GenerateResult(type, url, cost, videoChannelId) ==
    [kind |-> "result", message |-> "", type |-> type, url |-> url, cost |-> cost,
     videoChannelId |-> videoChannelId]

\* a dispatch that does not know the openai-compatible channels
ChatChannelTypes_withoutOpenAi == {"flow2api", "grok2api"}

ChatChannelTypes == {"flow2api", "grok2api", "openai-compatible"}

\* effectiveBaseUrl.replace(/\/$/, '') followed by /v1/chat/completions
chatApiUrl(effectiveBaseUrl) ==
    (IF effectiveBaseUrl # <<>> /\ effectiveBaseUrl[Len(effectiveBaseUrl)] = "/"
     THEN SubSeq(effectiveBaseUrl, 1, Len(effectiveBaseUrl) - 1)
     ELSE effectiveBaseUrl) \o <<"/","v","1","/","c","h","a","t","/","c","o","m","p","l","e","t","i","o","n","s">>

\* the model string generateByVideoModel gives the native Sora route
soraModelString(model, request) ==
    <<"s","o","r","a","2","-">> \o effectiveRatio(model, request) \o <<"-">> \o effectiveDuration(model, request)

\* a failure that is answered by a try on the legacy route
Fails_thenLegacy(message) ==
    /\ vdPc' = "sora"
    /\ vdCalls' = Append(vdCalls, SoraCall(vdRequest.model))
    /\ UNCHANGED <<vdOutcome, vdProgress>>

\* throw new Error(message), which generateWithSora logs and rethrows
Fails(message) ==
    /\ vdPc' = "failed"
    /\ vdOutcome' = GenerateError(message)
    /\ UNCHANGED <<vdCalls, vdProgress>>

\* a check that looks at the model only
disabledError_modelOnly(model, channel) ==
    IF ~model.enabled THEN "video model is disabled" ELSE ""

\* the message of the disabled-resource error, "" when model and channel are enabled
disabledError(model, channel) ==
    IF ~model.enabled THEN "video model is disabled"
    ELSE IF ~channel.enabled THEN "video channel is disabled"
    ELSE ""

\* generateViaSoraApi up to its generateVideo call
StartSoraApi(requestModel) ==
    /\ vdPc' = "sora"
    /\ vdCalls' = Append(vdCalls, SoraCall(requestModel))
    /\ UNCHANGED <<vdOutcome, vdProgress>>

\* generateViaExternalChat up to its POST
StartExternalChat(channel, model, request) ==
    LET effectiveBaseUrl == orDefault(model.baseUrl, channel.baseUrl)
        effectiveApiKey == orDefault(model.apiKey, channel.apiKey)
    IN  IF effectiveBaseUrl = <<>> \/ effectiveApiKey = <<>>
        THEN Fails("video channel has no Base URL or API Key")
        ELSE /\ vdPc' = "chat"
             /\ vdProgress' = Append(vdProgress, 5)
             /\ vdCalls' = Append(vdCalls, ChatCall(chatApiUrl(effectiveBaseUrl),
                                                    mapChannelModel(channel.type, model, request),
                                                    buildVideoMessages(request)))
             /\ UNCHANGED vdOutcome

\* generateWithSora and generateByVideoModel up to the first upstream call
GenerateWithSora ==
    LET request == vdRequest
        model == vdModelConfig.model
        channel == vdModelConfig.channel
    IN  /\ vdPc = "idle"
        /\ IF request.modelId = <<>>
           THEN vdRoute' = "legacy" /\ StartSoraApi(request.model)
           ELSE IF ~vdModelConfig.found
           THEN vdRoute' = "none" /\ Fails("video model does not exist or is not configured")
           ELSE IF disabledError(model, channel) # ""
           THEN vdRoute' = "none" /\ Fails(disabledError(model, channel))
           ELSE IF channel.type \in ChatChannelTypes
           THEN vdRoute' = "chat" /\ StartExternalChat(channel, model, request)
           ELSE IF channel.type = "sora"
           THEN vdRoute' = "sora" /\ StartSoraApi(soraModelString(model, request))
           ELSE vdRoute' = "none" /\ Fails("unsupported video channel type")
        /\ UNCHANGED <<vdRequest, vdModelConfig, vdPricing, vdUpstream>>
        /\ UNCHANGED <<blVars, ppVars, ccVars, adVars, gmVars>>

\* generateViaExternalChat from the answer to its POST
ExternalChatAnswer ==
    LET rawUrl == extractVideoUrlFromText(vdUpstream.content)
        priced == getTypeAndCost(vdRequest.model, vdPricing)
    IN  /\ vdPc = "chat"
        /\ IF vdUpstream.kind = "throws"
           THEN Fails("fetch failed")
           ELSE IF vdUpstream.kind = "http-error"
           THEN Fails("upstream returned an error")
           ELSE IF vdUpstream.kind # "string" \/ vdUpstream.content = <<>>
           THEN Fails("upstream returned no valid content")
           ELSE IF ~rawUrl.found \/ rawUrl.url = <<>>
           THEN Fails("cannot parse a video link from the upstream response")
           ELSE /\ vdPc' = "returned"
                /\ vdProgress' = Append(vdProgress, 100)
                /\ vdOutcome' = GenerateResult(priced.type, rawUrl.url, priced.cost,
                                               vdModelConfig.channel.id)
                /\ UNCHANGED vdCalls
        /\ UNCHANGED <<vdRequest, vdModelConfig, vdPricing, vdUpstream, vdRoute>>
        /\ UNCHANGED <<blVars, ppVars, ccVars, adVars, gmVars>>

\* generateViaSoraApi from the completion of generateVideo
SoraApiAnswer ==
    LET priced == getTypeAndCost(vdCalls[Len(vdCalls)].model, vdPricing)
    IN  /\ vdPc = "sora"
        /\ IF vdUpstream.kind = "throws"
           THEN /\ vdPc' = "failed"
                /\ vdOutcome' = GenerateError("generateVideo failed")
                /\ vdProgress' = vdProgress \o vdUpstream.progress
                /\ UNCHANGED vdCalls
           ELSE IF vdUpstream.url = <<>>
           THEN /\ vdPc' = "failed"
                /\ vdOutcome' = GenerateError("video generation returned no valid video URL")
                /\ vdProgress' = vdProgress \o vdUpstream.progress
                /\ UNCHANGED vdCalls
           ELSE /\ vdPc' = "returned"
                /\ vdProgress' = vdProgress \o vdUpstream.progress
                /\ vdOutcome' = GenerateResult(priced.type, vdUpstream.url, priced.cost,
                                               vdUpstream.channelId)
                /\ UNCHANGED vdCalls
        /\ UNCHANGED <<vdRequest, vdModelConfig, vdPricing, vdUpstream, vdRoute>>
        /\ UNCHANGED <<blVars, ppVars, ccVars, adVars, gmVars>>

NextVideo ==
    \/ GenerateWithSora
    \/ ExternalChatAnswer
    \/ SoraApiAnswer

\* the inputs: requests, stored models and channels, and upstream answers
VideoRequest(modelId, model, aspectRatio, duration) ==
    [modelId |-> modelId, model |-> model, prompt |-> <<"p">>, aspectRatio |-> aspectRatio,
     duration |-> duration, files |-> <<>>]

VideoModelConfig(modelEnabled, channelEnabled, type, apiModel, defaults, modelUrl, channelUrl) ==
    [found |-> TRUE,
     model |-> [enabled |-> modelEnabled, apiModel |-> apiModel,
                defaultAspectRatio |-> defaults[1], defaultDuration |-> defaults[2],
                baseUrl |-> modelUrl, apiKey |-> IF modelUrl = <<>> THEN <<>> ELSE <<"k">>],
     channel |-> [id |-> "channel-1", type |-> type, enabled |-> channelEnabled,
                  baseUrl |-> channelUrl, apiKey |-> IF channelUrl = <<>> THEN <<>> ELSE <<"k">>]]

Pricings == { [soraVideo10s |-> 100, soraVideo15s |-> 150, soraVideo25s |-> 200] }

ChannelTypes == {"flow2api", "grok2api", "openai-compatible", "sora", "midjourney"}

SupportedTypes == {"flow2api", "grok2api", "openai-compatible", "sora"}

ApiModels ==
    { <<>>, <<"v","e","o","-","t","2","v">>, <<"i","2","v","-","m","o","d","e","l">>, <<"V","e","o","-","I","m","a","g","e">>, <<"v","e","o","-","r","2","v","-","i","2","v">>, <<"R","e","f","e","r","e","n","c","e">>,
      <<"g","r","o","k","-","i","m","a","g","i","n","e","-","1",".","0","-","v","i","d","e","o">>, <<"G","r","o","k","-","I","m","a","g","i","n","e","-","1",".","0","-","V","i","d","e","o","-","p","o","r","t","r","a","i","t","-","1","5","s">> }

AspectRatios == { <<>>, Landscape, Portrait, <<"P","o","r","t","r","a","i","t">>, <<"9",":","1","6">> }

Durations == { <<>>, <<"5","s">>, <<"1","0","s">>, <<"1","5","s">>, <<"2","5","s">>, <<"0","7","s">>, <<"1","5","0","s">>, <<"l","o","n","g">> }

LegacyModels ==
    { <<"s","o","r","a","2","-","l","a","n","d","s","c","a","p","e","-","1","0","s">>, <<"s","o","r","a","2","-","p","o","r","t","r","a","i","t","-","1","5","s">>, <<"s","o","r","a","2","-","l","a","n","d","s","c","a","p","e","-","2","5","s">>,
      <<"s","o","r","a","2","-","p","r","o","-","p","o","r","t","r","a","i","t","-","2","5","s">>, <<"s","o","r","a","2","-","l","a","n","d","s","c","a","p","e","-","0","7","s">>, <<"s","o","r","a","-","v","i","d","e","o">> }

Answer(kind, content, url, progress) ==
    [kind |-> kind, content |-> content, url |-> url, progress |-> progress,
     channelId |-> "sora-channel"]

VideoEnvelope == buildMediaJson(<<"v","i","d","e","o">>, <<"h","t","t","p","s",":","/","/","x","/","y",".","m","p","4">>)

OkAnswer == Answer("string", VideoEnvelope, <<"h","t","t","p","s",":","/","/","s","/","v",".","m","p","4">>, <<50, 100>>)

ThrowsAnswer == Answer("throws", <<>>, <<>>, <<50>>)

HttpErrorAnswer == Answer("http-error", <<>>, <<>>, <<>>)

Contents ==
    { VideoEnvelope,
      buildMediaJson(<<"i","m","a","g","e">>, <<"h","t","t","p","s",":","/","/","x","/","y",".","p","n","g">>),
      buildMediaJson(<<"v","i","d","e","o">>, <<" ">>),
      <<"<","v","i","d","e","o"," ","c","o","n","t","r","o","l","s"," ","s","r","c","=","\"","h","t","t","p","s",":","/","/","x","/","a",".","m","p","4","\""," ","p","o","s","t","e","r","=","'","h","t","t","p","s",":","/","/","x","/","p",".","j","p","g","'",">">>,
      <<"<","V","I","D","E","O",">","<","s","o","u","r","c","e"," ","s","r","c","=","\"","h","t","t","p","s",":","/","/","x","/","s",".","w","e","b","m","\"",">">>,
      <<"<","v","i","d","e","o"," ","s","r","c","=","\""," ","\"",">"," ","h","t","t","p",":","/","/","x","/","v","i","d","e","o","/","1">>,
      <<"!","[","v","]","(","h","t","t","p","s",":","/","/","x","/","m",".","m","p","4",")"," ","h","t","t","p","s",":","/","/","x","/","b",".","m","o","v">>,
      <<"h","t","t","p","s",":","/","/","x","/","b",".","m","o","v"," ","!","[","v","]","(","h","t","t","p","s",":","/","/","x","/","m",".","m","p","4",")">>,
      <<"!","[","v","]","(","h","t","t","p","s",":","/","/","x","/","m",".","m","p","4",")"," ","<","s","o","u","r","c","e"," ","s","r","c","=","'","h","t","t","p","s",":","/","/","x","/","s",".","w","e","b","m","'",">">>,
      <<"[","v","]","(","h","t","t","p","s",":","/","/","x","/","l",".","m","p","4",")">>,
      <<"s","e","e"," ","h","t","t","p","s",":","/","/","x","/","y",".","p","n","g"," ","n","o","w">>,
      <<" ","H","T","T","P","S",":","/","/","x","/","V",".","M","P","4","?","t","=","1"," ">>,
      <<"n","o"," ","u","r","l"," ","h","e","r","e">>,
      <<" ">> }

Answers ==
    { OkAnswer, ThrowsAnswer, HttpErrorAnswer,
      Answer("missing", <<>>, <<>>, <<>>),
      Answer("not-string", <<>>, <<"h","t","t","p","s",":","/","/","s","/","v",".","m","p","4">>, <<100>>),
      Answer("string", <<>>, <<>>, <<50, 100>>) }
    \cup { Answer("string", content, <<"h","t","t","p","s",":","/","/","s","/","v",".","m","p","4">>, <<50>>) : content \in Contents }

Configured == VideoModelConfig(TRUE, TRUE, "flow2api", <<"v","e","o","-","t","2","v">>, << <<>>, <<>> >>, <<>>, <<"h","t","t","p","s",":","/","/","u","/">>)

\* requests that differ in model name, ratio and duration, on enabled channels
MappingInputs ==
    { <<VideoRequest(<<"m","1">>, <<"s","o","r","a","-","v","i","d","e","o">>, ratio, duration),
        VideoModelConfig(TRUE, TRUE, type, apiModel, << <<>>, <<>> >>, <<>>, <<"h","t","t","p","s",":","/","/","u">>),
        answer>> :
        ratio \in AspectRatios, duration \in Durations, apiModel \in ApiModels,
        type \in SupportedTypes, answer \in {OkAnswer} }

\* requests that leave ratio or duration to the model's defaults
DefaultsInputs ==
    { <<VideoRequest(<<"m","1">>, model, ratio, duration),
        VideoModelConfig(TRUE, TRUE, type, <<"i","2","v","-","m","o","d","e","l">>, defaults, <<>>, <<"h","t","t","p","s",":","/","/","u">>),
        answer>> :
        model \in {<<"s","o","r","a","-","v","i","d","e","o">>, <<"s","o","r","a","2","-","l","a","n","d","s","c","a","p","e","-","2","5","s">>},
        ratio \in {<<>>, Landscape}, duration \in {<<>>, <<"1","0","s">>},
        defaults \in {<<>>, Portrait} \X {<<>>, <<"1","5","s">>, <<"2","5","s">>},
        type \in SupportedTypes, answer \in {OkAnswer, HttpErrorAnswer} }

\* requests that differ in what their modelId resolves to
DispatchInputs ==
    { <<VideoRequest(<<"m","1">>, <<"s","o","r","a","2","-","l","a","n","d","s","c","a","p","e","-","1","0","s">>, Portrait, <<"1","5","s">>),
        VideoModelConfig(modelEnabled, channelEnabled, type, <<"v","e","o","-","t","2","v">>, << <<>>, <<>> >>,
                         modelUrl, channelUrl),
        answer>> :
        modelEnabled \in BOOLEAN, channelEnabled \in BOOLEAN, type \in ChannelTypes,
        modelUrl \in {<<>>, <<"h","t","t","p","s",":","/","/","m">>}, channelUrl \in {<<>>, <<"h","t","t","p","s",":","/","/","u","/">>},
        answer \in {OkAnswer, ThrowsAnswer, HttpErrorAnswer} }
    \cup { <<VideoRequest(<<"m","1">>, <<"s","o","r","a","2","-","l","a","n","d","s","c","a","p","e","-","1","0","s">>, Portrait, <<"1","5","s">>), NoModelConfig, answer>> :
             answer \in {OkAnswer, ThrowsAnswer} }

\* requests without a modelId
LegacyInputs ==
    { <<VideoRequest(<<>>, model, ratio, <<"1","5","s">>), config, answer>> :
        model \in LegacyModels, ratio \in {<<>>, Portrait}, config \in {NoModelConfig, Configured},
        answer \in {OkAnswer, ThrowsAnswer, Answer("string", VideoEnvelope, <<>>, <<50>>)} }

\* one chat request and one native request, with every answer
AnswerInputs ==
    { <<VideoRequest(<<"m","1">>, <<"s","o","r","a","-","v","i","d","e","o">>, Landscape, <<"1","0","s">>),
        VideoModelConfig(TRUE, TRUE, type, <<"v","e","o","-","t","2","v">>, << <<>>, <<>> >>, <<>>, <<"h","t","t","p","s",":","/","/","u","/">>),
        answer>> :
        type \in {"flow2api", "sora"}, answer \in Answers }

PngFile == [mimeType |-> <<"i","m","a","g","e","/","p","n","g">>, data |-> <<"A","A","A">>]

JpegFile == [mimeType |-> <<"i","m","a","g","e","/","j","p","e","g">>, data |-> <<"B","B","B">>]

Mp4File == [mimeType |-> <<"v","i","d","e","o","/","m","p","4">>, data |-> <<"C","C","C">>]

Attachments ==
    { <<>>, <<PngFile>>, <<Mp4File>>, <<PngFile, Mp4File, JpegFile>>, <<JpegFile, PngFile>>,
      <<Mp4File, PngFile, PngFile>> }

\* chat requests that differ in prompt and attachments
AttachmentInputs ==
    { <<[VideoRequest(<<"m","1">>, <<"s","o","r","a","-","v","i","d","e","o">>, Landscape, <<"1","0","s">>)
            EXCEPT !.prompt = prompt, !.files = files],
        VideoModelConfig(TRUE, TRUE, type, <<"v","e","o","-","t","2","v">>, << <<>>, <<>> >>, <<>>, <<"h","t","t","p","s",":","/","/","u">>),
        answer>> :
        prompt \in {<<>>, <<"a"," ","c","a","t">>}, files \in Attachments,
        type \in {"flow2api", "grok2api", "openai-compatible"},
        answer \in {OkAnswer, HttpErrorAnswer} }

VideoInputs ==
    MappingInputs \cup DefaultsInputs \cup DispatchInputs \cup LegacyInputs \cup AnswerInputs
        \cup AttachmentInputs

InitVideo ==
    /\ \E input \in VideoInputs :
          /\ vdRequest = input[1]
          /\ vdModelConfig = input[2]
          /\ vdUpstream = input[3]
    /\ vdPricing \in Pricings
    /\ vdPc = "idle"
    /\ vdRoute = "none"
    /\ vdCalls = <<>>
    /\ vdProgress = <<>>
    /\ vdOutcome = NoGenerateOutcome
    /\ BlocklistOff
    /\ ProcessorOff
    /\ CardOff
    /\ AdminOff
    /\ GroupOff

SpecVideo == InitVideo /\ [][NextVideo]_vars

(***************************************************************************)
(* app/api/generate/character-card/route.ts                                *)
(*                                                                         *)
(* The route's messages are Chinese text; the model spells them in ASCII.  *)
(***************************************************************************)
\* the table behind saveCharacterCard, updateCharacterCard and deleteCharacterCard
saveCharacterCard(cards, nextId, userId, avatarUrl) ==
    [cards |-> cards \cup {[id |-> nextId, userId |-> userId, characterName |-> <<>>,
                            avatarUrl |-> avatarUrl, status |-> "processing"]},
     nextId |-> nextId + 1,
     id |-> nextId]

updateCharacterCard(cards, id, characterName, status) ==
    { IF card.id = id
      THEN [card EXCEPT !.characterName = characterName, !.status = status]
      ELSE card : card \in cards }

deleteCharacterCard(cards, id, userId) ==
    { card \in cards : ~(card.id = id /\ card.userId = userId) }

\* JSON.stringify({ event, data }) of sendEvent, and the closing marker
CardEvent(event, id, message, characterName, avatarUrl) ==
    [event |-> event, id |-> id, message |-> message, characterName |-> characterName,
     avatarUrl |-> avatarUrl]

DoneMarker == CardEvent("[DONE]", 0, <<>>, <<>>, <<>>)

UnnamedCharacter == <<"U","n","n","a","m","e","d"," ","c","h","a","r","a","c","t","e","r">>

\* String.prototype.split('\n'); the text is bound once, so that the caller's
\* expression for it is evaluated a single time
RECURSIVE splitOnNewline(_)
splitOnNewline(s) ==
    LET split(text) ==
            LET nl == { i \in 1..Len(text) : text[i] = "\n" }
            IN  IF nl = {} THEN <<text>>
                ELSE <<SubSeq(text, 1, SetMin(nl) - 1)>>
                         \o splitOnNewline(SubSeq(text, SetMin(nl) + 1, Len(text)))
    IN  CHOOSE lines \in { split(text) : text \in {s} } : TRUE

\* text.match(/@[\w]+/): the first @ that a word character follows, with the
\* whole run of word characters after it; <<>> when there is none
matchCharacterName(text) ==
    LET at == { i \in 1..(Len(text) - 1) : text[i] = "@" /\ IsWordChar(text[i + 1]) }
    IN  IF at = {} THEN <<>>
        ELSE LET i == SetMin(at)
                 stops == { j \in (i + 1)..Len(text) : ~IsWordChar(text[j]) }
             IN  SubSeq(text, i, IF stops = {} THEN Len(text) ELSE SetMin(stops) - 1)

\* JSON.parse over the frames an upstream sends: what the handler reads of
\* the parsed value; any other text throws
NoFrame ==
    [throws |-> TRUE, choice |-> FALSE, reasoning_content |-> <<>>, content |-> <<>>,
     finish_reason |-> <<>>]

Frame(reasoning, content, finish) ==
    [throws |-> FALSE, choice |-> TRUE, reasoning_content |-> reasoning,
     content |-> content, finish_reason |-> finish]

ReasoningFrame == <<"{","\"","c","h","o","i","c","e","s","\"",":","[","{","\"","d","e","l","t","a","\"",":","{","\"","r","e","a","s","o","n","i","n","g","_","c","o","n","t","e","n","t","\"",":","\"","m","a","k","i","n","g"," ","@","b","o","b","\"","}","}","]","}">>

ContentFrame == <<"{","\"","c","h","o","i","c","e","s","\"",":","[","{","\"","d","e","l","t","a","\"",":","{","\"","c","o","n","t","e","n","t","\"",":","\"","@","a","m","y"," ","o","k","\"","}","}","]","}">>

StopFrame == <<"{","\"","c","h","o","i","c","e","s","\"",":","[","{","\"","d","e","l","t","a","\"",":","{","}",",","\"","f","i","n","i","s","h","_","r","e","a","s","o","n","\"",":","\"","s","t","o","p","\"","}","]","}">>

UpperStopFrame == <<"{","\"","c","h","o","i","c","e","s","\"",":","[","{","\"","d","e","l","t","a","\"",":","{","\"","c","o","n","t","e","n","t","\"",":","\"","m","a","d","e","\"","}",",","\"","f","i","n","i","s","h","_","r","e","a","s","o","n","\"",":","\"","S","T","O","P","\"","}","]","}">>

LengthFrame == <<"{","\"","c","h","o","i","c","e","s","\"",":","[","{","\"","d","e","l","t","a","\"",":","{","}",",","\"","f","i","n","i","s","h","_","r","e","a","s","o","n","\"",":","\"","l","e","n","g","t","h","\"","}","]","}">>

ErrorFrame == <<"{","\"","e","r","r","o","r","\"",":","{","\"","m","e","s","s","a","g","e","\"",":","\"","u","p","s","t","r","e","a","m"," ","f","a","i","l","e","d","\"","}","}">>

JSONparse(data) ==
    IF data = ReasoningFrame THEN Frame(<<"m","a","k","i","n","g"," ","@","b","o","b">>, <<>>, <<>>)
    ELSE IF data = ContentFrame THEN Frame(<<>>, <<"@","a","m","y"," ","o","k">>, <<>>)
    ELSE IF data = StopFrame THEN Frame(<<>>, <<>>, <<"s","t","o","p">>)
    ELSE IF data = UpperStopFrame THEN Frame(<<>>, <<"m","a","d","e">>, <<"S","T","O","P">>)
    ELSE IF data = LengthFrame THEN Frame(<<>>, <<>>, <<"l","e","n","g","t","h">>)
    ELSE IF data = ErrorFrame THEN [NoFrame EXCEPT !.throws = FALSE]
    ELSE NoFrame

\* one step of a request leaves the request's locals and the table
Stepped(st, cards, nextId) == [st |-> st, cards |-> cards, nextId |-> nextId]

\* NextResponse.json({ error }, { status })
respond(st, status, error) == [st EXCEPT !.pc = "responded", !.status = status, !.error = error]

\* the checks of POST before the record is created; a body that is not JSON
\* throws into the handler's catch
authorize(st, input) ==
    IF ~input.session THEN respond(st, 401, <<"P","l","e","a","s","e"," ","l","o","g"," ","i","n">>)
    ELSE IF ~input.jsonBody THEN respond(st, 500, <<"U","n","e","x","p","e","c","t","e","d"," ","t","o","k","e","n">>)
    ELSE IF input.videoBase64 = <<>> THEN respond(st, 400, <<"P","l","e","a","s","e"," ","u","p","l","o","a","d"," ","a"," ","v","i","d","e","o">>)
    ELSE IF ~input.userExists THEN respond(st, 401, <<"U","s","e","r"," ","d","o","e","s"," ","n","o","t"," ","e","x","i","s","t">>)
    ELSE [st EXCEPT !.pc = "save"]

\* the record is created, the stream is made and its start runs up to the
\* first await of processCharacterCardStream; the response carries the stream
createCard(st, input, cards, nextId) ==
    LET saved == saveCharacterCard(cards, nextId, input.userId, input.firstFrameBase64)
    IN  Stepped([st EXCEPT !.pc = "fetch",
                           !.status = 200,
                           !.cardId = saved.id,
                           !.stream = "open",
                           !.events = <<CardEvent("started", saved.id, <<>>, <<>>, <<>>)>>],
                saved.cards, saved.nextId)

\* onComplete and onError are async: the call runs them up to their await of
\* the table and returns
callOnComplete(st, characterName) ==
    [st EXCEPT !.pc = "updating", !.pending = [kind |-> "complete", arg |-> characterName]]

callOnError(st, message) ==
    [st EXCEPT !.pc = "deleting", !.pending = [kind |-> "error", arg |-> message]]

\* processCharacterCardStream from the configuration to response.body.getReader()
fetchUpstream(st, input, config) ==
    IF config.soraBaseUrl = <<>> THEN callOnError(st, <<"S","o","r","a"," ","B","a","s","e"," ","U","R","L"," ","i","s"," ","n","o","t"," ","c","o","n","f","i","g","u","r","e","d">>)
    ELSE IF config.soraApiKey = <<>> THEN callOnError(st, <<"S","o","r","a"," ","A","P","I"," ","K","e","y"," ","i","s"," ","n","o","t"," ","c","o","n","f","i","g","u","r","e","d">>)
    ELSE IF input.upstream.kind = "throws" THEN callOnError(st, input.upstream.message)
    ELSE IF ~input.upstream.ok
         THEN callOnError([st EXCEPT !.conn = IF input.upstream.hasBody THEN "open" ELSE "none"],
                          <<"A","P","I"," ","r","e","q","u","e","s","t"," ","f","a","i","l","e","d",":"," ">> \o input.upstream.status)
    ELSE IF ~input.upstream.hasBody THEN callOnError(st, <<"T","h","e"," ","r","e","s","p","o","n","s","e"," ","h","a","s"," ","n","o"," ","b","o","d","y">>)
    ELSE [st EXCEPT !.pc = "read", !.conn = "open", !.next = 1]

NameOr(characterName) == IF characterName # <<>> THEN characterName ELSE UnnamedCharacter

\* the handling of one data: line whose payload is data and parses to parsed
handleFrame(acc, data, parsed) ==
    IF data = <<"[","D","O","N","E","]">> \/ parsed.throws \/ ~parsed.choice THEN acc
    ELSE LET reasoningContent == parsed.reasoning_content
             content == parsed.content
             afterReasoning ==
                 IF reasoningContent # <<>>
                 THEN [acc EXCEPT
                         !.events = Append(@, CardEvent("progress", 0, reasoningContent,
                                                        <<>>, <<>>)),
                         !.characterName =
                             IF matchCharacterName(reasoningContent) # <<>>
                             THEN matchCharacterName(reasoningContent) ELSE @]
                 ELSE acc
             afterContent ==
                 IF content # <<>>
                 THEN [afterReasoning EXCEPT
                         !.finalContent = @ \o content,
                         !.characterName =
                             IF matchCharacterName(content) # <<>>
                             THEN matchCharacterName(content) ELSE @]
                 ELSE afterReasoning
         IN  [afterContent EXCEPT !.stopped = parsed.finish_reason \in {<<"S","T","O","P">>, <<"s","t","o","p">>}]

\* the body of the for loop over the lines of a chunk; acc.stopped is the
\* return at the finish reason, after which no line is looked at.  The
\* payload and its parse are bound once.
processLine(acc, line) ==
    IF acc.stopped \/ ~startsWith(line, <<"d","a","t","a",":"," ">>) THEN acc
    ELSE CHOOSE out \in
             { handleFrame(acc, frame[1], frame[2]) :
                 frame \in { <<data, JSONparse(data)>> : data \in {trim(slice(line, 6))} } } : TRUE

\* for (const line of lines); each line and each result is bound once
RECURSIVE processLines(_, _)
processLines(acc, lines) ==
    IF lines = <<>> THEN acc
    ELSE CHOOSE out \in { processLines(next, Tail(lines)) :
                             next \in { processLine(acc, line) : line \in {Head(lines)} } } : TRUE

\* one turn of the while loop: reader.read() and what follows it
readChunk(st, input) ==
    IF st.next > Len(input.upstream.chunks)
    THEN IF input.upstream.ending = "done"
         THEN callOnComplete([st EXCEPT !.conn = "released"], NameOr(st.characterName))
         ELSE callOnError([st EXCEPT !.conn = "released"], input.upstream.message)
    ELSE LET after(lines, acc) ==
                 LET read == [st EXCEPT !.next = @ + 1,
                                        !.buffer = lines[Len(lines)],
                                        !.events = acc.events,
                                        !.characterName = acc.characterName,
                                        !.finalContent = acc.finalContent]
                 IN  IF acc.stopped THEN callOnComplete(read, NameOr(acc.characterName))
                     ELSE read
             start == [events |-> st.events, characterName |-> st.characterName,
                       finalContent |-> st.finalContent, stopped |-> FALSE]
         IN  CHOOSE out \in
                 { after(done[1], done[2]) :
                     done \in { <<lines, processLines(start, SubSeq(lines, 1, Len(lines) - 1))>> :
                                  lines \in {splitOnNewline(st.buffer
                                                \o input.upstream.chunks[st.next])} } } : TRUE

Settled(st, cards) == [st |-> st, cards |-> cards]

onComplete_withoutClose(st, input, cards) ==
    Settled([st EXCEPT !.pc = "closed",
                       !.events = @ \o <<CardEvent("completed", st.cardId, <<>>, st.pending.arg,
                                                   input.firstFrameBase64),
                                         DoneMarker>>],
            updateCharacterCard(cards, st.cardId, st.pending.arg, "completed"))

\* the rest of the onComplete callback, from the table's answer on
onComplete(st, input, cards) ==
    Settled([st EXCEPT !.pc = "closed",
                       !.stream = "closed",
                       !.events = @ \o <<CardEvent("completed", st.cardId, <<>>, st.pending.arg,
                                                   input.firstFrameBase64),
                                         DoneMarker>>],
            updateCharacterCard(cards, st.cardId, st.pending.arg, "completed"))

\* the rest of the onError callback
onError_deletesTheUsersCards(st, input, cards) ==
    Settled([st EXCEPT !.pc = "closed",
                       !.stream = "closed",
                       !.events = @ \o <<CardEvent("error", 0, st.pending.arg, <<>>, <<>>),
                                         DoneMarker>>],
            { card \in cards : card.userId # input.userId })

onError_keepsTheRecord(st, input, cards) ==
    Settled([st EXCEPT !.pc = "closed",
                       !.stream = "closed",
                       !.events = @ \o <<CardEvent("error", 0, st.pending.arg, <<>>, <<>>),
                                         DoneMarker>>],
            cards)

onError(st, input, cards) ==
    Settled([st EXCEPT !.pc = "closed",
                       !.stream = "closed",
                       !.events = @ \o <<CardEvent("error", 0, st.pending.arg, <<>>, <<>>),
                                         DoneMarker>>],
            deleteCharacterCard(cards, st.cardId, input.userId))

Authorize(r) ==
    /\ ccReq[r].pc = "start"
    /\ ccReq' = [ccReq EXCEPT ![r] = authorize(@, ccInput[r])]
    /\ UNCHANGED <<ccConfig, ccInput, ccCards, ccNextId>>
    /\ UNCHANGED <<blVars, ppVars, vdVars, adVars, gmVars>>

CreateCard(r) ==
    /\ ccReq[r].pc = "save"
    /\ LET created == createCard(ccReq[r], ccInput[r], ccCards, ccNextId)
       IN  /\ ccReq' = [ccReq EXCEPT ![r] = created.st]
           /\ ccCards' = created.cards
           /\ ccNextId' = created.nextId
    /\ UNCHANGED <<ccConfig, ccInput>>
    /\ UNCHANGED <<blVars, ppVars, vdVars, adVars, gmVars>>

FetchUpstream(r) ==
    /\ ccReq[r].pc = "fetch"
    /\ ccReq' = [ccReq EXCEPT ![r] = fetchUpstream(@, ccInput[r], ccConfig)]
    /\ UNCHANGED <<ccConfig, ccInput, ccCards, ccNextId>>
    /\ UNCHANGED <<blVars, ppVars, vdVars, adVars, gmVars>>

ReadChunk(r) ==
    /\ ccReq[r].pc = "read"
    /\ ccReq' = [ccReq EXCEPT ![r] = readChunk(@, ccInput[r])]
    /\ UNCHANGED <<ccConfig, ccInput, ccCards, ccNextId>>
    /\ UNCHANGED <<blVars, ppVars, vdVars, adVars, gmVars>>

CompleteCard(r) ==
    /\ ccReq[r].pc = "updating"
    /\ LET settled == onComplete(ccReq[r], ccInput[r], ccCards)
       IN  /\ ccReq' = [ccReq EXCEPT ![r] = settled.st]
           /\ ccCards' = settled.cards
    /\ UNCHANGED <<ccConfig, ccInput, ccNextId>>
    /\ UNCHANGED <<blVars, ppVars, vdVars, adVars, gmVars>>

FailCard(r) ==
    /\ ccReq[r].pc = "deleting"
    /\ LET settled == onError(ccReq[r], ccInput[r], ccCards)
       IN  /\ ccReq' = [ccReq EXCEPT ![r] = settled.st]
           /\ ccCards' = settled.cards
    /\ UNCHANGED <<ccConfig, ccInput, ccNextId>>
    /\ UNCHANGED <<blVars, ppVars, vdVars, adVars, gmVars>>

CardStep(r) ==
    \/ Authorize(r)
    \/ CreateCard(r)
    \/ FetchUpstream(r)
    \/ ReadChunk(r)
    \/ CompleteCard(r)
    \/ FailCard(r)

NextCard == \E r \in Reqs : CardStep(r)

\* what the requests are given
DataLine(data) == <<"d","a","t","a",":"," ">> \o data \o <<"\n">>

CardStream(chunks, ending) ==
    [kind |-> "response", ok |-> TRUE, status |-> <<"2","0","0">>, hasBody |-> TRUE, chunks |-> chunks,
     ending |-> ending, message |-> IF ending = "done" THEN <<>> ELSE <<"t","e","r","m","i","n","a","t","e","d">>]

FetchThrows == [NoCardUpstream EXCEPT !.kind = "throws", !.message = <<"f","e","t","c","h"," ","f","a","i","l","e","d">>]

HttpError ==
    [NoCardUpstream EXCEPT !.kind = "response", !.status = <<"5","0","0">>, !.hasBody = TRUE]

BodylessResponse == [NoCardUpstream EXCEPT !.kind = "response", !.ok = TRUE, !.status = <<"2","0","0">>]

StopsEarly ==
    CardStream(<<DataLine(ReasoningFrame),
                 DataLine(ContentFrame) \o <<"\n">> \o DataLine(StopFrame),
                 DataLine(<<"[","D","O","N","E","]">>)>>, "done")

SplitFrame ==
    CardStream(<<SubSeq(DataLine(UpperStopFrame), 1, 12),
                 SubSeq(DataLine(UpperStopFrame), 13, Len(DataLine(UpperStopFrame)))>>, "done")

ErrorEvent ==
    CardStream(<<DataLine(ReasoningFrame) \o DataLine(ErrorFrame), DataLine(<<"[","D","O","N","E","]">>)>>, "done")

EndsUnfinished == CardStream(<<DataLine(ReasoningFrame)>>, "done")

BreaksOff == CardStream(<<DataLine(ReasoningFrame)>>, "broken")

LengthLimited == CardStream(<<DataLine(ContentFrame), DataLine(LengthFrame)>>, "done")

Noise == CardStream(<<<<":"," ","k","e","e","p","-","a","l","i","v","e","\n","d","a","t","a",":"," ","{","o","o","p","s","\n">>, ContentFrame>>, "done")

CardStreams ==
    {StopsEarly, SplitFrame, ErrorEvent, EndsUnfinished, BreaksOff, LengthLimited, Noise}

CardUpstreams == {FetchThrows, HttpError, BodylessResponse} \cup CardStreams

CardRequest(userId, upstream) ==
    [session |-> TRUE, userId |-> userId, jsonBody |-> TRUE, videoBase64 |-> <<"V","I","D">>,
     firstFrameBase64 |-> <<"I","M","G">>, userExists |-> TRUE, upstream |-> upstream]

RejectedRequests ==
    { [CardRequest("u1", StopsEarly) EXCEPT !.session = FALSE],
      [CardRequest("u1", StopsEarly) EXCEPT !.jsonBody = FALSE],
      [CardRequest("u1", StopsEarly) EXCEPT !.videoBase64 = <<>>],
      [CardRequest("u1", StopsEarly) EXCEPT !.userExists = FALSE] }

CardInputs ==
    RejectedRequests
        \cup { CardRequest("u1", upstream) : upstream \in CardUpstreams }
        \cup { CardRequest("u2", upstream) : upstream \in {StopsEarly, BreaksOff} }

SoraConfig == [soraBaseUrl |-> <<"h","t","t","p","s",":","/","/","s","o","r","a","/">>, soraApiKey |-> <<"k","e","y">>]

UnconfiguredInputs == { CardRequest("u1", StopsEarly), CardRequest("u2", StopsEarly) }

InitCard ==
    /\ \/ /\ ccConfig = SoraConfig
          /\ ccInput \in [Reqs -> CardInputs]
       \/ /\ ccConfig \in {[SoraConfig EXCEPT !.soraBaseUrl = <<>>],
                           [SoraConfig EXCEPT !.soraApiKey = <<>>]}
          /\ ccInput \in [Reqs -> UnconfiguredInputs]
    /\ ccReq = [r \in Reqs |-> NewCardRequest("start")]
    /\ ccCards = {}
    /\ ccNextId = 1
    /\ BlocklistOff
    /\ ProcessorOff
    /\ VideoOff
    /\ AdminOff
    /\ GroupOff

SpecCard == InitCard /\ [][NextCard]_vars

\* the event loop runs every continuation that is ready
FairSpecCard == SpecCard /\ \A r \in Reqs : WF_vars(CardStep(r))

(***************************************************************************)
(* The admin routes of video models and of the system configuration        *)
(* (app/api/admin/...; their messages are spelled in ASCII)                *)
(***************************************************************************)
toUpperChar(c) == IF c \in LowerSet THEN UpperLetters[indexOf(LowerLetters, c)] ELSE c

toUpperCase(s) == [i \in 1..Len(s) |-> toUpperChar(s[i])]

\* a VideoConfigObject, or the raw value it is read from: each property is
\* absent, <<>>, or present, <<value>>; a string is a sequence of characters
NoVideoConfig ==
    [aspect_ratio |-> <<>>, video_length |-> <<>>, resolution |-> <<>>, preset |-> <<>>]

Min(a, b) == IF a < b THEN a ELSE b

Max(a, b) == IF a > b THEN a ELSE b

\* raw is <<>> for a value that is no object, else <<the object>>; the result
\* is <<>> for undefined
normalizeVideoConfigObject(raw) ==
    IF raw = <<>> THEN <<>>
    ELSE LET source == raw[1]
             aspectRatio == IF source.aspect_ratio = <<>> THEN <<>>
                            ELSE trim(source.aspect_ratio[1])
             resolution == IF source.resolution = <<>> THEN <<>>
                           ELSE toUpperCase(trim(source.resolution[1]))
             preset == IF source.preset = <<>> THEN <<>>
                       ELSE toLowerCase(trim(source.preset[1]))
             config ==
                 [aspect_ratio |->
                      IF aspectRatio \in {<<"1","6",":","9">>, <<"9",":","1","6">>, <<"1",":","1">>, <<"2",":","3">>, <<"3",":","2">>}
                      THEN <<aspectRatio>> ELSE <<>>,
                  video_length |->
                      IF source.video_length = <<>> THEN <<>>
                      ELSE <<Max(5, Min(15, source.video_length[1]))>>,
                  resolution |-> IF resolution \in {<<"S","D">>, <<"H","D">>} THEN <<resolution>> ELSE <<>>,
                  preset |-> IF preset \in {<<"f","u","n">>, <<"n","o","r","m","a","l">>, <<"s","p","i","c","y">>} THEN <<preset>> ELSE <<>>]
         IN  IF config = NoVideoConfig THEN <<>> ELSE <<config>>

\* !session?.user || session.user.role !== 'admin', negated; the session is
\* told by its user's role, "none" when there is no session
isAdmin_anyUser(role) == role # "none"

isAdmin(role) == role = "admin"

\* what a handler leaves: the store, the response and the persistence calls
Handled(store, status, error, data, calls) ==
    [store |-> store,
     response |-> [status |-> status, error |-> error, data |-> data],
     calls |-> calls]

Forbidden(store) == Handled(store, 403, "No permission", <<>>, <<>>)

\* the persistence layer behind the routes: the video-model table, whose ids
\* come from ModelIds in order, and the stored configuration
ModelIds == <<"1">>

getVideoModels(store) == store.models

NewModelId(store) == IF store.nextId \in DOMAIN ModelIds THEN ModelIds[store.nextId] ELSE ""

createVideoModel(store, model) ==
    [store |-> [store EXCEPT !.models = @ \cup {[model EXCEPT !.id = NewModelId(store)]},
                             !.nextId = @ + 1],
     model |-> [model EXCEPT !.id = NewModelId(store)]]

\* a property of updates that is present replaces the stored one
Merged(stored, update) == IF update = <<>> THEN stored ELSE update[1]

updatedVideoModel(model, updates) ==
    [id |-> model.id,
     channelId |-> Merged(model.channelId, updates.channelId),
     name |-> Merged(model.name, updates.name),
     description |-> Merged(model.description, updates.description),
     apiModel |-> Merged(model.apiModel, updates.apiModel),
     baseUrl |-> Merged(model.baseUrl, updates.baseUrl),
     apiKey |-> Merged(model.apiKey, updates.apiKey),
     features |-> Merged(model.features, updates.features),
     aspectRatios |-> Merged(model.aspectRatios, updates.aspectRatios),
     durations |-> Merged(model.durations, updates.durations),
     defaultAspectRatio |-> Merged(model.defaultAspectRatio, updates.defaultAspectRatio),
     defaultDuration |-> Merged(model.defaultDuration, updates.defaultDuration),
     videoConfigObject |-> Merged(model.videoConfigObject, updates.videoConfigObject),
     highlight |-> Merged(model.highlight, updates.highlight),
     enabled |-> Merged(model.enabled, updates.enabled),
     sortOrder |-> Merged(model.sortOrder, updates.sortOrder)]

\* found is FALSE for the null that updateVideoModel returns for an unknown id
updateVideoModel(store, id, updates) ==
    [store |-> [store EXCEPT !.models = { IF model.id = id THEN updatedVideoModel(model, updates)
                                          ELSE model : model \in @ }],
     found |-> \E model \in store.models : model.id = id,
     model |-> { updatedVideoModel(model, updates) : model \in { m \in store.models : m.id = id } }]

deleteVideoModel(store, id) ==
    [store |-> [store EXCEPT !.models = { model \in @ : model.id # id }],
     success |-> \E model \in store.models : model.id = id]

getSystemConfig(store) == store.config

updateSystemConfig(store, updates) ==
    [store EXCEPT !.config =
        [soraBackendUrl |-> Merged(@.soraBackendUrl, updates.soraBackendUrl),
         soraBackendToken |-> Merged(@.soraBackendToken, updates.soraBackendToken)]]

\* x || fallback for a string property, and for one that is truthy when present
StringOr(field, fallback) == IF field = <<>> \/ field[1] = "" THEN fallback ELSE field[1]

ValueOr(field, fallback) == IF field = <<>> THEN fallback ELSE field[1]

Missing(field) == field = <<>> \/ field[1] = ""

DefaultFeatures ==
    [textToVideo |-> TRUE, imageToVideo |-> FALSE, videoToVideo |-> FALSE,
     supportStyles |-> FALSE]

DefaultModelAspectRatios ==
    <<[value |-> "landscape", label |-> "16:9"], [value |-> "portrait", label |-> "9:16"]>>

DefaultModelDurations == <<[value |-> "10s", label |-> "10 s", cost |-> 100]>>

\* GET /api/admin/video-models
videoModelsGET(store, role) ==
    IF ~isAdmin(role) THEN Forbidden(store)
    ELSE Handled(store, 200, "", <<getVideoModels(store)>>, <<"getVideoModels">>)

\* POST /api/admin/video-models
videoModelsPOST(store, role, body) ==
    IF ~isAdmin(role) THEN Forbidden(store)
    ELSE IF ~body.valid THEN Handled(store, 500, "Unexpected token", <<>>, <<>>)
    ELSE IF Missing(body.channelId) \/ Missing(body.name) \/ Missing(body.apiModel)
         THEN Handled(store, 400, "Channel, name and model ID are required", <<>>, <<>>)
    ELSE LET created ==
                 createVideoModel(store,
                     [id |-> "",
                      channelId |-> body.channelId[1],
                      name |-> body.name[1],
                      description |-> StringOr(body.description, ""),
                      apiModel |-> body.apiModel[1],
                      baseUrl |-> StringOr(body.baseUrl, ""),
                      apiKey |-> StringOr(body.apiKey, ""),
                      features |-> ValueOr(body.features, DefaultFeatures),
                      aspectRatios |-> ValueOr(body.aspectRatios, DefaultModelAspectRatios),
                      durations |-> ValueOr(body.durations, DefaultModelDurations),
                      defaultAspectRatio |-> StringOr(body.defaultAspectRatio, "landscape"),
                      defaultDuration |-> StringOr(body.defaultDuration, "10s"),
                      videoConfigObject |-> normalizeVideoConfigObject(body.videoConfigObject),
                      highlight |-> ValueOr(body.highlight, FALSE),
                      enabled |-> body.enabled # <<FALSE>>,
                      sortOrder |-> ValueOr(body.sortOrder, 0)])
         IN  Handled(created.store, 200, "", <<created.model>>, <<"createVideoModel">>)

\* PUT /api/admin/video-models
videoModelsPUT(store, role, body) ==
    IF ~isAdmin(role) THEN Forbidden(store)
    ELSE IF ~body.valid THEN Handled(store, 500, "Unexpected token", <<>>, <<>>)
    ELSE IF Missing(body.id) THEN Handled(store, 400, "Missing ID", <<>>, <<>>)
    ELSE LET normalizedUpdates ==
                 IF body.videoConfigObject # <<>>
                 THEN [body EXCEPT !.videoConfigObject =
                                       <<normalizeVideoConfigObject(body.videoConfigObject)>>]
                 ELSE body
             updated == updateVideoModel(store, body.id[1], normalizedUpdates)
         IN  IF ~updated.found
             THEN Handled(updated.store, 404, "Model does not exist", <<>>, <<"updateVideoModel">>)
             ELSE Handled(updated.store, 200, "", <<updated.model>>, <<"updateVideoModel">>)

\* DELETE /api/admin/video-models?id=
videoModelsDELETE(store, role, body) ==
    IF ~isAdmin(role) THEN Forbidden(store)
    ELSE IF Missing(body.id) THEN Handled(store, 400, "Missing ID", <<>>, <<>>)
    ELSE LET deleted == deleteVideoModel(store, body.id[1])
         IN  IF ~deleted.success
             THEN Handled(deleted.store, 404, "Delete failed", <<>>, <<"deleteVideoModel">>)
             ELSE Handled(deleted.store, 200, "", <<>>, <<"deleteVideoModel">>)

\* GET /api/admin/settings
systemConfigGET(store, role) ==
    IF ~isAdmin(role) THEN Forbidden(store)
    ELSE Handled(store, 200, "", <<getSystemConfig(store)>>, <<"getSystemConfig">>)

\* the condition under which POST empties the stored token
changesBackendUrl_whenGiven(updates, current) ==
    /\ updates.soraBackendUrl # <<>>
    /\ trim(updates.soraBackendUrl[1]) # <<>>

changesBackendUrl(updates, current) ==
    /\ updates.soraBackendUrl # <<>>
    /\ trim(updates.soraBackendUrl[1]) # <<>>
    /\ trim(updates.soraBackendUrl[1]) # trim(current.soraBackendUrl)

\* POST /api/admin/settings
systemConfigPOST(store, role, body) ==
    IF ~isAdmin(role) THEN Forbidden(store)
    ELSE IF ~body.valid THEN Handled(store, 500, "Unexpected token", <<>>, <<>>)
    ELSE LET current == getSystemConfig(store)
             nextUpdates == IF changesBackendUrl(body, current)
                            THEN [body EXCEPT !.soraBackendToken = << <<>> >>]
                            ELSE body
             updated == updateSystemConfig(store, nextUpdates)
         IN  Handled(updated, 200, "", <<updated.config>>,
                     <<"getSystemConfig", "updateSystemConfig">>)

\* what the admin routes are given
Roles == {"none", "admin", "moderator", "user"}

JsonBody == [NoAdminBody EXCEPT !.valid = TRUE]

RawVideoConfig ==
    [aspect_ratio |-> <<<<" ","1","6",":","9"," ">>>>, video_length |-> <<20>>, resolution |-> <<<<"h","d">>>>,
     preset |-> <<<<"L","o","u","d">>>>]

PlainModel ==
    [JsonBody EXCEPT !.channelId = <<"c1">>, !.name = <<"Veo">>, !.apiModel = <<"veo-3">>]

CreateBodies ==
    { PlainModel,
      [PlainModel EXCEPT !.videoConfigObject = <<RawVideoConfig>>, !.enabled = <<FALSE>>,
                         !.defaultDuration = <<"15s">>],
      [PlainModel EXCEPT !.apiModel = <<>>],
      NoAdminBody }

UpdateBodies ==
    { [JsonBody EXCEPT !.id = <<"1">>, !.name = <<"Veo 2">>],
      [JsonBody EXCEPT !.id = <<"1">>,
                       !.videoConfigObject =
                           <<[NoVideoConfig EXCEPT !.aspect_ratio = <<<<"4",":","3">>>>]>>],
      [JsonBody EXCEPT !.name = <<"Veo 2">>],
      [JsonBody EXCEPT !.id = <<"9">>, !.enabled = <<FALSE>>] }

DeleteQueries == { [JsonBody EXCEPT !.id = <<"1">>], [JsonBody EXCEPT !.id = <<"9">>], JsonBody }

BackendUrls == { <<>>, <<<<" "," ">>>>, <<<<" ","h","t","t","p","s",":","/","/","a"," ">>>>, <<<<"h","t","t","p","s",":","/","/","b">>>> }

BackendTokens == { <<>>, <<<<"t","o","k">>>> }

ConfigBodies ==
    { [JsonBody EXCEPT !.soraBackendUrl = url, !.soraBackendToken = token] :
        url \in BackendUrls, token \in BackendTokens } \cup {NoAdminBody}

VideoModelsGET ==
    \E role \in Roles :
        LET handled == videoModelsGET(adStore, role)
        IN  /\ handled.store.nextId <= Len(ModelIds) + 1
            /\ adStore' = handled.store
            /\ adRequest' = [handler |-> "models.GET", role |-> role, body |-> NoAdminBody]
            /\ adResponse' = handled.response
            /\ adCalls' = handled.calls
            /\ UNCHANGED <<blVars, ppVars, vdVars, ccVars, gmVars>>

VideoModelsPOST ==
    \E role \in Roles, body \in CreateBodies :
        LET handled == videoModelsPOST(adStore, role, body)
        IN  /\ handled.store.nextId <= Len(ModelIds) + 1
            /\ adStore' = handled.store
            /\ adRequest' = [handler |-> "models.POST", role |-> role, body |-> body]
            /\ adResponse' = handled.response
            /\ adCalls' = handled.calls
            /\ UNCHANGED <<blVars, ppVars, vdVars, ccVars, gmVars>>

VideoModelsPUT ==
    \E role \in Roles, body \in UpdateBodies :
        LET handled == videoModelsPUT(adStore, role, body)
        IN  /\ handled.store.nextId <= Len(ModelIds) + 1
            /\ adStore' = handled.store
            /\ adRequest' = [handler |-> "models.PUT", role |-> role, body |-> body]
            /\ adResponse' = handled.response
            /\ adCalls' = handled.calls
            /\ UNCHANGED <<blVars, ppVars, vdVars, ccVars, gmVars>>

VideoModelsDELETE ==
    \E role \in Roles, body \in DeleteQueries :
        LET handled == videoModelsDELETE(adStore, role, body)
        IN  /\ handled.store.nextId <= Len(ModelIds) + 1
            /\ adStore' = handled.store
            /\ adRequest' = [handler |-> "models.DELETE", role |-> role, body |-> body]
            /\ adResponse' = handled.response
            /\ adCalls' = handled.calls
            /\ UNCHANGED <<blVars, ppVars, vdVars, ccVars, gmVars>>

SystemConfigGET ==
    \E role \in Roles :
        LET handled == systemConfigGET(adStore, role)
        IN  /\ handled.store.nextId <= Len(ModelIds) + 1
            /\ adStore' = handled.store
            /\ adRequest' = [handler |-> "config.GET", role |-> role, body |-> NoAdminBody]
            /\ adResponse' = handled.response
            /\ adCalls' = handled.calls
            /\ UNCHANGED <<blVars, ppVars, vdVars, ccVars, gmVars>>

SystemConfigPOST ==
    \E role \in Roles, body \in ConfigBodies :
        LET handled == systemConfigPOST(adStore, role, body)
        IN  /\ handled.store.nextId <= Len(ModelIds) + 1
            /\ adStore' = handled.store
            /\ adRequest' = [handler |-> "config.POST", role |-> role, body |-> body]
            /\ adResponse' = handled.response
            /\ adCalls' = handled.calls
            /\ UNCHANGED <<blVars, ppVars, vdVars, ccVars, gmVars>>

NextAdmin ==
    \/ VideoModelsGET
    \/ VideoModelsPOST
    \/ VideoModelsPUT
    \/ VideoModelsDELETE
    \/ SystemConfigGET
    \/ SystemConfigPOST

InitAdmin ==
    /\ adStore \in { [config |-> [soraBackendUrl |-> url, soraBackendToken |-> <<"o","l","d">>],
                      models |-> {}, nextId |-> 1] :
                        url \in {<<>>, <<"h","t","t","p","s",":","/","/","a">>} }
    /\ adRequest = NoAdminRequest
    /\ adResponse = NoAdminResponse
    /\ adCalls = <<>>
    /\ BlocklistOff
    /\ ProcessorOff
    /\ VideoOff
    /\ CardOff
    /\ GroupOff

SpecAdmin == InitAdmin /\ [][NextAdmin]_vars

(***************************************************************************)
(* groupModels (the remote-models route of the image channels)             *)
(***************************************************************************)
\* a suffix table as pairs <<suffix, value>>; Lookup gives "" for undefined
Lookup(table, key) ==
    IF \E i \in 1..Len(table) : table[i][1] = key
    THEN table[SetMin({ i \in 1..Len(table) : table[i][1] = key })][2]
    ELSE ""

\* basePattern is ^(.+?{baseSuffix})-({ratios})({sizes})?$ with the i flag
MODEL_PATTERNS ==
    << [baseSuffix |-> <<"-","i","m","a","g","e">>,
        ratios |-> <<<<"l","a","n","d","s","c","a","p","e">>, <<"p","o","r","t","r","a","i","t">>, <<"s","q","u","a","r","e">>, <<"f","o","u","r","-","t","h","r","e","e">>, <<"t","h","r","e","e","-","f","o","u","r">>>>,
        sizes |-> <<<<"-","2","k">>, <<"-","4","k">>>>,
        ratioSuffixes |-> << <<<<"l","a","n","d","s","c","a","p","e">>, "16:9">>, <<<<"p","o","r","t","r","a","i","t">>, "9:16">>,
                             <<<<"s","q","u","a","r","e">>, "1:1">>, <<<<"f","o","u","r","-","t","h","r","e","e">>, "4:3">>,
                             <<<<"t","h","r","e","e","-","f","o","u","r">>, "3:4">> >>,
        sizeSuffixes |-> << <<<<>>, "1K">>, <<<<"-","2","k">>, "2K">>, <<<<"-","4","k">>, "4K">> >>],
       [baseSuffix |-> <<"-","p","r","e","v","i","e","w">>,
        ratios |-> <<<<"l","a","n","d","s","c","a","p","e">>, <<"p","o","r","t","r","a","i","t">>>>,
        sizes |-> <<>>,
        ratioSuffixes |-> << <<<<"l","a","n","d","s","c","a","p","e">>, "16:9">>, <<<<"p","o","r","t","r","a","i","t">>, "9:16">> >>,
        sizeSuffixes |-> <<>>] >>

NoGroupMatch == [matched |-> FALSE, baseName |-> <<>>, ratio |-> <<>>, size |-> <<>>]

\* the tails -ratio or -ratio-size that the pattern accepts after the base
PatternTails(pattern) ==
    { [ratio |-> pattern.ratios[i], size |-> size] :
        i \in 1..Len(pattern.ratios), size \in {<<>>} \cup Range(pattern.sizes) }

\* model.id.match(pattern.basePattern): the lazy base is the shortest one
\* that ends in the base suffix and leaves an accepted tail; match[2] and
\* match[3] are given in lower case, as the caller takes them
matchPattern(id, pattern) ==
    LET suffixLen == Len(pattern.baseSuffix)
        TailsAt(n) ==
            { tail \in PatternTails(pattern) :
                toLowerCase(SubSeq(id, n + 1, Len(id))) = <<"-">> \o tail.ratio \o tail.size }
        ends == { n \in (suffixLen + 1)..Len(id) :
                    /\ toLowerCase(SubSeq(id, n - suffixLen + 1, n)) = pattern.baseSuffix
                    /\ TailsAt(n) # {} }
    IN  IF ends = {} THEN NoGroupMatch
        ELSE LET n == SetMin(ends)
                 tail == CHOOSE t \in TailsAt(n) : TRUE
             IN  [matched |-> TRUE, baseName |-> SubSeq(id, 1, n), ratio |-> tail.ratio,
                  size |-> tail.size]

\* baseName.replace(/-/g, ' ').replace(/\b\w/g, c => c.toUpperCase())
displayNameOf(baseName) ==
    LET spaced == [i \in 1..Len(baseName) |-> IF baseName[i] = "-" THEN " " ELSE baseName[i]]
    IN  [i \in 1..Len(spaced) |->
            IF IsWordChar(spaced[i]) /\ (i = 1 \/ ~IsWordChar(spaced[i - 1]))
            THEN toUpperChar(spaced[i]) ELSE spaced[i]]

Includes(list, x) == \E i \in 1..Len(list) : list[i] = x

PushNew(list, x) == IF Includes(list, x) THEN list ELSE Append(list, x)

\* group.resolutions as entries: one per ratio and size when nested, one per
\* ratio (size "") when simple; an assignment replaces the entry of its key
setResolution(resolutions, nested, aspectRatio, imageSize, id) ==
    LET size == IF nested THEN imageSize ELSE ""
    IN  { entry \in resolutions : ~(entry.ratio = aspectRatio /\ entry.size = size) }
            \cup {[ratio |-> aspectRatio, size |-> size, id |-> id]}

\* the first pattern, from index p on, that matches the id and knows its ratio
RECURSIVE firstMatch(_, _)
firstMatch(id, p) ==
    IF p > Len(MODEL_PATTERNS) THEN [pattern |-> 0, match |-> NoGroupMatch]
    ELSE LET match == matchPattern(id, MODEL_PATTERNS[p])
         IN  IF match.matched /\ Lookup(MODEL_PATTERNS[p].ratioSuffixes, match.ratio) # ""
             THEN [pattern |-> p, match |-> match]
             ELSE firstMatch(id, p + 1)

GroupIndex(grouped, baseName) == { g \in 1..Len(grouped) : grouped[g].baseName = baseName }

\* the body of the loop for a model that matched pattern p: the group is
\* made when the Map has none of this base name, then filled
addToGroup(grouped, model, p, match) ==
    LET pattern == MODEL_PATTERNS[p]
        aspectRatio == Lookup(pattern.ratioSuffixes, match.ratio)
        imageSize == IF Lookup(pattern.sizeSuffixes, match.size) # ""
                     THEN Lookup(pattern.sizeSuffixes, match.size) ELSE "1K"
        fresh == [baseName |-> match.baseName,
                  displayName |-> displayNameOf(match.baseName),
                  apiModel |-> model.id,
                  aspectRatios |-> <<>>,
                  imageSizes |-> <<>>,
                  resolutions |-> {},
                  features |-> [textToImage |-> TRUE, imageToImage |-> TRUE,
                                imageSize |-> Len(pattern.sizeSuffixes) > 1]]
        known == GroupIndex(grouped, match.baseName)
        withGroup == IF known = {} THEN Append(grouped, fresh) ELSE grouped
        g == IF known = {} THEN Len(withGroup) ELSE SetMin(known)
        group == withGroup[g]
    IN  [withGroup EXCEPT ![g] =
            [group EXCEPT
               !.aspectRatios = PushNew(@, aspectRatio),
               !.imageSizes = PushNew(@, imageSize),
               !.resolutions = setResolution(@, group.features.imageSize, aspectRatio,
                                             imageSize, model.id)]]

ratioOrder == <<"1:1", "16:9", "9:16", "4:3", "3:4">>

sizeOrder == <<"1K", "2K", "4K">>

\* order.indexOf(x): -1 when absent, counted from 0
OrderIndex(order, x) == IF Includes(order, x) THEN indexOf(order, x) - 1 ELSE -1

RECURSIVE insertByOrder(_, _, _)
insertByOrder(sorted, x, order) ==
    IF sorted = <<>> THEN <<x>>
    ELSE IF OrderIndex(order, x) < OrderIndex(order, Head(sorted))
         THEN <<x>> \o sorted
         ELSE <<Head(sorted)>> \o insertByOrder(Tail(sorted), x, order)

\* list.sort((a, b) => order.indexOf(a) - order.indexOf(b)), a stable sort
RECURSIVE sortByOrder(_, _)
sortByOrder(list, order) ==
    IF list = <<>> THEN <<>>
    ELSE insertByOrder(sortByOrder(SubSeq(list, 1, Len(list) - 1), order),
                       list[Len(list)], order)

\* the ids under resolutions[ratio][size], or under resolutions[ratio]
ResolutionAt(group, ratio, size) ==
    { entry.id : entry \in { e \in group.resolutions : e.ratio = ratio /\ e.size = size } }

\* the sorting of a group's lists and the choice of its default apiModel
finishGroup(group) ==
    LET aspectRatios == sortByOrder(group.aspectRatios, ratioOrder)
        imageSizes == sortByOrder(group.imageSizes, sizeOrder)
        defaultRatio == IF Includes(aspectRatios, "1:1") THEN "1:1"
                        ELSE IF aspectRatios = <<>> THEN "" ELSE aspectRatios[1]
        defaultSize == IF Includes(imageSizes, "1K") THEN "1K"
                       ELSE IF imageSizes = <<>> THEN "" ELSE imageSizes[1]
        chosen == IF group.features.imageSize
                  THEN ResolutionAt(group, defaultRatio, defaultSize)
                  ELSE ResolutionAt(group, defaultRatio, "")
    IN  [group EXCEPT
           !.aspectRatios = aspectRatios,
           !.imageSizes = imageSizes,
           !.apiModel = IF chosen = {} THEN @ ELSE CHOOSE id \in chosen : TRUE]

\* one turn of the loop over the models
GroupNextModel ==
    /\ gmPc = "loop"
    /\ gmIndex < Len(gmModels)
    /\ LET model == gmModels[gmIndex + 1]
           found == firstMatch(model.id, 1)
       IN  /\ gmIndex' = gmIndex + 1
           /\ IF found.pattern # 0
              THEN /\ gmGrouped' = addToGroup(gmGrouped, model, found.pattern, found.match)
                   /\ gmProcessedIds' = gmProcessedIds \cup {model.id}
                   /\ gmUngrouped' = gmUngrouped
              ELSE /\ gmUngrouped' = Append(gmUngrouped, model)
                   /\ UNCHANGED <<gmGrouped, gmProcessedIds>>
    /\ UNCHANGED <<gmModels, gmPc, gmResult>>
    /\ UNCHANGED <<blVars, ppVars, vdVars, ccVars, adVars>>

\* after the loop: every group is finished and the two lists are returned
ReturnGroups ==
    /\ gmPc = "loop"
    /\ gmIndex = Len(gmModels)
    /\ gmPc' = "returned"
    /\ gmResult' = [grouped |-> [g \in 1..Len(gmGrouped) |-> finishGroup(gmGrouped[g])],
                    ungrouped |-> SelectSeq(gmUngrouped, LAMBDA m : m.id \notin gmProcessedIds)]
    /\ UNCHANGED <<gmModels, gmIndex, gmGrouped, gmUngrouped, gmProcessedIds>>
    /\ UNCHANGED <<blVars, ppVars, vdVars, ccVars, adVars>>

NextGroup == GroupNextModel \/ ReturnGroups

MaxModels == 3

RemoteModel(id) == [id |-> id, owned_by |-> "upstream"]

RemoteModelIds ==
    { <<"g","-","i","m","a","g","e","-","l","a","n","d","s","c","a","p","e">>, <<"g","-","i","m","a","g","e","-","L","a","n","d","s","c","a","p","e">>, <<"g","-","i","m","a","g","e","-","s","q","u","a","r","e","-","2","k">>, <<"g","-","i","m","a","g","e","-","S","Q","U","A","R","E","-","2","K">>,
      <<"i","-","p","r","e","v","i","e","w","-","p","o","r","t","r","a","i","t">>, <<"i","-","p","r","e","v","i","e","w","-","l","a","n","d","s","c","a","p","e">>, <<"g","p","t","-","4","o">> }

RemoteModelLists ==
    UNION { [1..n -> { RemoteModel(id) : id \in RemoteModelIds }] : n \in 0..MaxModels }

InitGroup ==
    /\ BlocklistOff /\ ProcessorOff /\ VideoOff /\ CardOff /\ AdminOff
    /\ gmModels \in RemoteModelLists
    /\ gmPc = "loop"
    /\ gmIndex = 0
    /\ gmGrouped = <<>>
    /\ gmUngrouped = <<>>
    /\ gmProcessedIds = {}
    /\ gmResult = NoGroupResult

SpecGroup == InitGroup /\ [][NextGroup]_vars

Init == InitBlocklist /\ ProcessorOff /\ VideoOff /\ CardOff /\ AdminOff /\ GroupOff

Next ==
    \/ FindBlockedWordsCall
    \/ AssertPromptAllowedCall

Spec == Init /\ [][Next]_vars

(***************************************************************************)
(* Vocabulary of the blocklist properties, stated from the rule format and *)
(* not through parseRule                                                   *)
(***************************************************************************)
ruleText == blocklistWordsOf(systemConfig)

ruleLines == parseBlocklistWords(ruleText)

\* the text after a prefix of n characters, trimmed
After(line, n) == trim(SubSeq(line, n + 1, Len(line)))

HasPrefix(line, prefix) ==
    /\ Len(line) >= Len(prefix)
    /\ \A k \in 1..Len(prefix) : toLowerChar(line[k]) = prefix[k]

\* /pattern/flags
IsLiteralForm(line) ==
    /\ Len(line) >= 2
    /\ line[1] = "/"
    /\ \E j \in 2..Len(line) :
          /\ line[j] = "/"
          /\ \A k \in (j + 1)..Len(line) : IsAsciiLetter(line[k])
          /\ \A k \in 2..(j - 1) : line[k] \notin {"\n", "\r"}

ClosingSlash(line) == SetMax({ j \in 2..Len(line) : line[j] = "/" })

\* the rule kind the documented prefixes give a trimmed, non-blank line
ExpectedKind(line) ==
    IF HasPrefix(line, SUBSTRING_PREFIX) THEN "substring"
    ELSE IF HasPrefix(line, WORD_PREFIX) THEN "word"
    ELSE IF HasPrefix(line, REGEX_PREFIXES[1]) \/ HasPrefix(line, REGEX_PREFIXES[2]) THEN "regex"
    ELSE IF IsLiteralForm(line) THEN "regex"
    ELSE "word"

\* the pattern source of a line of kind regex
PatternOf(line) ==
    LET rest == IF HasPrefix(line, REGEX_PREFIXES[1]) THEN After(line, Len(REGEX_PREFIXES[1]))
                ELSE IF HasPrefix(line, REGEX_PREFIXES[2]) THEN After(line, Len(REGEX_PREFIXES[2]))
                ELSE line
    IN  IF IsLiteralForm(rest) THEN trim(SubSeq(rest, 2, ClosingSlash(rest) - 1)) ELSE rest

ParenDepth(pattern, k) ==
    Cardinality({ i \in 1..k : pattern[i] = "(" }) - Cardinality({ i \in 1..k : pattern[i] = ")" })

\* a pattern the RegExp constructor rejects: unbalanced parentheses
Unbalanced(pattern) ==
    \/ ParenDepth(pattern, Len(pattern)) # 0
    \/ \E k \in 1..Len(pattern) : ParenDepth(pattern, k) < 0

InvalidRegexLine(line) ==
    /\ ExpectedKind(line) = "regex"
    /\ PatternOf(line) # <<>>
    /\ Unbalanced(PatternOf(line))

\* a prefix or a literal with nothing in it
EmptyValueLine(line) ==
    \/ HasPrefix(line, SUBSTRING_PREFIX) /\ After(line, Len(SUBSTRING_PREFIX)) = <<>>
    \/ ~HasPrefix(line, SUBSTRING_PREFIX) /\ HasPrefix(line, WORD_PREFIX)
          /\ After(line, Len(WORD_PREFIX)) = <<>>
    \/ ExpectedKind(line) = "regex" /\ PatternOf(line) = <<>>

YieldsNoRule(line) == EmptyValueLine(line) \/ InvalidRegexLine(line)

\* value occurs in text at 1-based position i, ignoring case
OccursAt(value, text, i) ==
    /\ i + Len(value) - 1 <= Len(text)
    /\ \A k \in 1..Len(value) : toLowerChar(text[i + k - 1]) = toLowerChar(value[k])

OccursAsWholeWord(value, text) ==
    \E i \in 1..Len(text) :
        /\ OccursAt(value, text, i)
        /\ i = 1 \/ ~IsWordChar(text[i - 1])
        /\ i + Len(value) - 1 = Len(text) \/ ~IsWordChar(text[i + Len(value)])

OccursAnywhere(value, text) == \E i \in 1..(Len(text) + 1) : OccursAt(value, text, i)

\* the rule text is the single rule `prefix value'
SingleRuleWith(prefix) ==
    /\ Len(ruleLines) = 1
    /\ HasPrefix(ruleLines[1], prefix)
    /\ After(ruleLines[1], Len(prefix)) # <<>>

CommaSeparated(list) ==
    LET F[i \in 1..Len(list)] ==
            IF i = 1 THEN list[1] ELSE F[i - 1] \o <<",", " ">> \o list[i]
    IN  IF list = <<>> THEN <<>> ELSE F[Len(list)]

(***************************************************************************)
(* C1  With blocking disabled assertPromptAllowed never fails; enabled, it *)
(* fails exactly when findBlockedWords returns a non-empty list, and the   *)
(* error message is the blocked-prompt prefix, ": ", and the matched raw   *)
(* rule lines in match order separated by ", ", which isPromptBlockedError *)
(* recognises.                                                             *)
(***************************************************************************)
C1_AssertFailsExactlyOnMatch ==
    blPc = "asserted" =>
        LET found == findBlockedWords(blPrompt, ruleText)
            enabled == blocklistEnabledOf(systemConfig)
        IN  /\ ~enabled => ~blError.thrown
            /\ enabled => (blError.thrown <=> found.list # <<>>)
            /\ blError.thrown =>
                  /\ blError.message =
                        PROMPT_BLOCKED_ERROR_PREFIX \o <<":", " ">> \o CommaSeparated(found.list)
                  /\ isPromptBlockedError(blError)
            /\ ~blError.thrown => ~isPromptBlockedError(blError)

C1_Witness ==
    /\ blPc = "asserted"
    /\ blError.thrown
    /\ Len(findBlockedWords(blPrompt, ruleText).list) = 2

(***************************************************************************)
(* C2  A `word:' rule matches a prompt exactly where its value occurs,     *)
(* ignoring case, preceded by start-of-text or a character that is not a   *)
(* letter, digit or underscore and followed by end-of-text or such a       *)
(* character; `word:cat' matches "the cat sat" and not "concatenate".      *)
(***************************************************************************)
C2_WordRuleMatchesWholeWords ==
    (blPc = "found" /\ SingleRuleWith(WORD_PREFIX)) =>
        /\ ~blResult.threw
        /\ blResult.list # <<>> <=>
              OccursAsWholeWord(After(ruleLines[1], Len(WORD_PREFIX)), blPrompt)
        /\ (ruleText = WORD_PREFIX \o Cat /\ blPrompt = TheCatSat) => blResult.list = <<ruleText>>
        /\ (ruleText = WORD_PREFIX \o Cat /\ blPrompt = Concatenate) => blResult.list = <<>>

C2_Witness ==
    /\ blPc = "found"
    /\ ruleText = WORD_PREFIX \o Cat
    /\ blPrompt = TheCatSat
    /\ blResult.list = <<WORD_PREFIX \o Cat>>

(***************************************************************************)
(* C3  A `substr:' rule matches a prompt exactly when the lower-cased,     *)
(* trimmed rule value is contained anywhere in the lower-cased, trimmed    *)
(* prompt, whatever surrounds it; `substr:cat' matches "concatenate".      *)
(***************************************************************************)
C3_SubstrRuleMatchesAnywhere ==
    (blPc = "found" /\ SingleRuleWith(SUBSTRING_PREFIX)) =>
        /\ ~blResult.threw
        /\ blResult.list # <<>> <=>
              OccursAnywhere(After(ruleLines[1], Len(SUBSTRING_PREFIX)), trim(blPrompt))
        /\ (ruleText = SUBSTRING_PREFIX \o Cat /\ blPrompt = Concatenate) =>
              blResult.list = <<ruleText>>

C3_Witness ==
    /\ blPc = "found"
    /\ ruleText = SUBSTRING_PREFIX \o Cat
    /\ blPrompt = Concatenate
    /\ blResult.list = <<SUBSTRING_PREFIX \o Cat>>

(***************************************************************************)
(* C4  A rule line whose regular expression does not compile is dropped    *)
(* silently: findBlockedWords does not throw, never reports the line, and  *)
(* returns what it returns for the rule text without the invalid lines.    *)
(***************************************************************************)
IsValidLine(line) == ~InvalidRegexLine(line)

C4_InvalidRegexIgnored ==
    blPc = "found" =>
        LET lines == ruleLines
        IN  /\ ~blResult.threw
            /\ \A i \in 1..Len(blResult.list) : ~InvalidRegexLine(blResult.list[i])
            /\ (\E i \in 1..Len(lines) : InvalidRegexLine(lines[i])) =>
                  blResult =
                    findBlockedWords(blPrompt, join(SelectSeq(lines, IsValidLine), <<"\n">>))

C4_Witness ==
    /\ blPc = "found"
    /\ Len(ruleLines) = 2
    /\ InvalidRegexLine(ruleLines[1])
    /\ blResult.list = <<ruleLines[2]>>

(***************************************************************************)
(* C5  (as claimed) Every non-blank rule line is classified into exactly   *)
(* one rule kind by its prefix: `word:' whole-word, `substr:' substring,   *)
(* `re:'/`regex:' or a /pattern/flags literal regular expression, anything *)
(* else whole-word on the whole line.                                      *)
(***************************************************************************)
C5_EveryLineClassified ==
    blPc = "found" =>
        LET lines == ruleLines
        IN  \A i \in 1..Len(lines) : parseRule(lines[i]).type = ExpectedKind(lines[i])

\* the value the documented format gives a line of each kind
ExpectedValue(line) ==
    IF HasPrefix(line, SUBSTRING_PREFIX) THEN After(line, Len(SUBSTRING_PREFIX))
    ELSE IF HasPrefix(line, WORD_PREFIX) THEN After(line, Len(WORD_PREFIX))
    ELSE IF ExpectedKind(line) = "regex" THEN PatternOf(line)
    ELSE line

(***************************************************************************)
(* C5  (amended) Every non-blank rule line yields at most one rule, of the *)
(* kind and value its prefix selects; a line whose value is empty after    *)
(* its prefix, or whose regular expression is empty or does not compile,   *)
(* yields no rule.                                                         *)
(***************************************************************************)
C5_LineClassifiedOrDropped ==
    blPc = "found" =>
        LET lines == ruleLines
        IN  \A i \in 1..Len(lines) :
                LET line == lines[i]
                    rule == parseRule(line)
                IN  IF YieldsNoRule(line) THEN rule.type = "null"
                    ELSE /\ rule.type = ExpectedKind(line)
                         /\ rule.raw = line
                         /\ rule.value = ExpectedValue(line)

C5_Witness ==
    /\ blPc = "found"
    /\ Len(ruleLines) = 2
    /\ EmptyValueLine(ruleLines[1])
    /\ parseRule(ruleLines[1]).type = "null"
    /\ IsLiteralForm(ruleLines[2])
    /\ parseRule(ruleLines[2]).type = "regex"

(***************************************************************************)
(* C6  findBlockedWords returns matched raw rule lines in the order of     *)
(* their first occurrence in the rule text, and no two entries of the      *)
(* result have the same normalized (trimmed, lower-cased) text.            *)
(***************************************************************************)
FirstIndexIn(list, x) == SetMin({ k \in 1..Len(list) : list[k] = x })

C6_OrderedAndDistinct ==
    blPc = "found" =>
        LET list == blResult.list
            lines == ruleLines
        IN  /\ \A i \in 1..Len(list) : \E k \in 1..Len(lines) : lines[k] = list[i]
            /\ \A i, j \in 1..Len(list) :
                  i < j => /\ FirstIndexIn(lines, list[i]) < FirstIndexIn(lines, list[j])
                           /\ normalizeText(list[i]) # normalizeText(list[j])

C6_Witness ==
    /\ blPc = "found"
    /\ Len(ruleLines) = 2
    /\ ruleLines[1] # ruleLines[2]
    /\ normalizeText(ruleLines[1]) = normalizeText(ruleLines[2])
    /\ findBlockedWords(blPrompt, ruleLines[2]).list = <<ruleLines[2]>>
    /\ blResult.list = <<ruleLines[1]>>

(***************************************************************************)
(* C8  (as claimed) The rules compiled from a rule text contain exactly    *)
(* one rule per non-blank, de-duplicated source line.                      *)
(***************************************************************************)
C8_OneRulePerDistinctLine ==
    blPc = "found" =>
        LET rules == compileRules(ruleText)
            lines == ruleLines
        IN  \A i \in 1..Len(lines) :
                Cardinality({ k \in 1..Len(rules) : rules[k].raw = lines[i] }) = 1

YieldsRule(line) == ~YieldsNoRule(line)

(***************************************************************************)
(* C8  (amended) The rules compiled from a rule text are, in line order,   *)
(* one rule for every non-blank source line that parses to a rule,         *)
(* repeated lines included: nothing is de-duplicated at compile time, and  *)
(* a line with an empty value or a regular expression that does not        *)
(* compile has no rule.                                                    *)
(***************************************************************************)
C8_OneRulePerParsedLine ==
    blPc = "found" =>
        LET rules == compileRules(ruleText)
        IN  [k \in 1..Len(rules) |-> rules[k].raw] = SelectSeq(ruleLines, YieldsRule)

C8_Witness ==
    /\ blPc = "found"
    /\ Len(ruleLines) = 2
    /\ ruleLines[1] = ruleLines[2]
    /\ Len(compileRules(ruleText)) = 2

(***************************************************************************)
(* Prompt processor: vocabulary of the properties                          *)
(***************************************************************************)
Started == ppPc \notin {"off", "idle"}

Blank(text) == trim(text) = <<>>

TranslateEnabled == ppConfig.present /\ ppConfig.promptProcessing.translateEnabled

FilterEnabled == ppConfig.present /\ ppConfig.promptProcessing.filterEnabled

\* translation is switched on and the translate model or the filter model
\* has no id
TranslationMisconfigured ==
    /\ TranslateEnabled
    /\ \/ Blank(ppConfig.promptProcessing.translateModelId)
       \/ Blank(ppConfig.promptProcessing.filterModelId)

FailedBeforeAnyCall == ppPc = "failed" /\ ppOutcome.kind = "error" /\ ppCalls = <<>>

\* C9 as stated: processVideoPrompt fails, with no external model call issued,
\* whenever translation is enabled and the translate model or the filter model
\* is not configured.
C9_FailsFastWheneverMisconfigured ==
    (Started /\ TranslationMisconfigured) => FailedBeforeAnyCall

\* C9 amended: for a prompt that is not blank, processVideoPrompt fails, with no
\* external model call issued, whenever translation is enabled and the translate
\* model or the filter model is not configured.
C9_FailsFastOnNonBlankPrompt ==
    (Started /\ TranslationMisconfigured /\ ~Blank(ppOriginal)) => FailedBeforeAnyCall

C9_Witness ==
    /\ FailedBeforeAnyCall
    /\ ~Blank(ppOriginal)
    /\ TranslateEnabled
    /\ ~FilterEnabled
    /\ ~Blank(ppConfig.promptProcessing.translateModelId)
    /\ Blank(ppConfig.promptProcessing.filterModelId)

StepRank(step) == CASE step = "filter" -> 1 [] step = "translate" -> 2 [] step = "refilter" -> 3

\* what a completion call's answer is read as
AnswerText(call) == extractFinalPrompt(normalizeModelText(call.upstream.content))

\* the calls made so far are in the order filter rewrite, translation, filter
\* pass, each at most once and each only if enabled; the rewrite reads the
\* original prompt and the filter pass reads the translation
StepsInOrder ==
    /\ \A i, j \in 1..Len(ppCalls) :
           i < j => StepRank(ppCalls[i].step) < StepRank(ppCalls[j].step)
    /\ \A i \in 1..Len(ppCalls) :
           LET call == ppCalls[i]
           IN  /\ call.step = "filter" => (FilterEnabled /\ call.inputPrompt = trim(ppOriginal))
               /\ call.step = "translate" => TranslateEnabled
               /\ call.step = "refilter" =>
                      /\ i > 1
                      /\ ppCalls[i - 1].step = "translate"
                      /\ ppState.translatedPrompt = Defined(call.inputPrompt)

\* the returned processedPrompt is what the filter model made of the translation
ProcessedIsFilteredTranslation ==
    /\ ppCalls # <<>>
    /\ LET last == ppCalls[Len(ppCalls)]
       IN  /\ last.step = "refilter"
           /\ last.upstream.ok
           /\ ppOutcome.translatedPrompt = Defined(last.inputPrompt)
           /\ ppOutcome.processedPrompt = AnswerText(last)

\* C10 as stated: the steps run in the order filter rewrite, translation, filter
\* pass over the translation, and whenever translation is enabled and has run
\* and the call succeeds, the returned processedPrompt is the result of filtering
\* the translated text, never the unfiltered translation.
C10_TranslationAlwaysRefiltered ==
    /\ StepsInOrder
    /\ (ppPc = "returned" /\ TranslateEnabled /\ ppOutcome.translatedPrompt.defined)
           => ProcessedIsFilteredTranslation


\* the completion call this step has just issued, when its answer is read as
\* empty content
EmptyAnswerStep(call) ==
    /\ ppCalls' = Append(ppCalls, call)
    /\ call.upstream.ok
    /\ AnswerText(call) = <<>>

\* C11: when the answer of a step's model is read as empty content, the first
\* version fails the whole processVideoPrompt call with the empty-content error,
\* and the second version goes on with the step's input prompt unchanged.
C11_EmptyContentFailsOrPassesThrough ==
    [][\A call \in { Call(ppPc, modelId, instruction, ppState.currentPrompt, upstream) :
                         modelId \in FilterModelIds \cup TranslateModelIds,
                         instruction \in {optionsOf(ppConfig).filterPrompt,
                                          optionsOf(ppConfig).translatePrompt},
                         upstream \in Upstreams } :
           EmptyAnswerStep(call) =>
               /\ ppVariant = 1 =>
                      /\ ppPc' = "failed"
                      /\ ppOutcome' = ErrorOutcome(EMPTY_PROMPT_PROCESSOR_ERROR)
               /\ ppVariant = 2 =>
                      /\ ppPc' # "failed"
                      /\ ppOutcome'.kind # "error"
                      /\ ppState'.currentPrompt = call.inputPrompt
                      /\ call.inputPrompt = ppState.currentPrompt]_vars

C11_Witness ==
    /\ ppVariant = 2
    /\ ppPc = "returned"
    /\ Len(ppCalls) = 1
    /\ ppCalls[1].upstream.ok
    /\ AnswerText(ppCalls[1]) = <<>>
    /\ ppOutcome.processedPrompt = trim(ppOriginal)
    /\ ppOutcome.filteredPrompt = Defined(trim(ppOriginal))

(***************************************************************************)
(* Video channel adapter: vocabulary of the properties                     *)
(***************************************************************************)
VideoStarted == vdPc \notin {"off", "idle"}

VideoAnswered == vdPc \in {"returned", "failed"}

HasModelId == vdRequest.modelId # <<>>

\* the modelId resolves to an enabled model on an enabled channel
ResolvesEnabled ==
    /\ HasModelId
    /\ vdModelConfig.found
    /\ vdModelConfig.model.enabled
    /\ vdModelConfig.channel.enabled

ChannelType == vdModelConfig.channel.type

\* the ratio and duration in force: the request's, else the model's default,
\* else landscape and 10s
RatioInForce ==
    IF vdRequest.aspectRatio # <<>> THEN vdRequest.aspectRatio
    ELSE IF vdModelConfig.model.defaultAspectRatio # <<>> THEN vdModelConfig.model.defaultAspectRatio
    ELSE <<"l","a","n","d","s","c","a","p","e">>

DurationInForce ==
    IF vdRequest.duration # <<>> THEN vdRequest.duration
    ELSE IF vdModelConfig.model.defaultDuration # <<>> THEN vdModelConfig.model.defaultDuration
    ELSE <<"1","0","s">>

OnlyCallsOf(kind) == \A i \in 1..Len(vdCalls) : vdCalls[i].kind = kind

\* C12: a modelId that resolves to an enabled model and channel is dispatched on
\* the channel type alone: flow2api, grok2api and openai-compatible to the
\* chat-completion route, sora to the native route with the model string
\* sora2-{ratio}-{duration}, any other type to an unsupported-channel error; a
\* request without modelId goes to the legacy Sora route with its own model.
C12_DispatchOnChannelType ==
    VideoStarted =>
        /\ (ResolvesEnabled /\ ChannelType \in {"flow2api", "grok2api", "openai-compatible"})
               => (vdRoute = "chat" /\ OnlyCallsOf("chat"))
        /\ (ResolvesEnabled /\ ChannelType = "sora")
               => /\ vdRoute = "sora"
                  /\ Len(vdCalls) = 1
                  /\ vdCalls[1].kind = "sora"
                  /\ vdCalls[1].model = <<"s","o","r","a","2","-">> \o RatioInForce \o <<"-">> \o DurationInForce
        /\ (ResolvesEnabled /\ ChannelType \notin {"flow2api", "grok2api", "openai-compatible", "sora"})
               => /\ vdRoute = "none"
                  /\ vdPc = "failed"
                  /\ vdOutcome = GenerateError("unsupported video channel type")
                  /\ vdCalls = <<>>
        /\ ~HasModelId
               => /\ vdRoute = "legacy"
                  /\ Len(vdCalls) = 1
                  /\ vdCalls[1].kind = "sora"
                  /\ vdCalls[1].model = vdRequest.model

C12_Witness ==
    /\ ResolvesEnabled
    /\ ChannelType = "openai-compatible"
    /\ vdPc = "returned"
    /\ vdRoute = "chat"
    /\ Len(vdCalls) = 1
    /\ vdCalls[1].kind = "chat"

\* C13: when the resolved model or its channel is disabled the request fails
\* with a disabled-resource error and no upstream call is issued.
C13_DisabledFailsWithoutCall ==
    (/\ VideoStarted
     /\ HasModelId
     /\ vdModelConfig.found
     /\ ~vdModelConfig.model.enabled \/ ~vdModelConfig.channel.enabled)
        => /\ vdPc = "failed"
           /\ vdOutcome.kind = "error"
           /\ vdOutcome.message \in {"video model is disabled", "video channel is disabled"}
           /\ vdCalls = <<>>
           /\ vdRoute = "none"

C13_Witness ==
    /\ vdPc = "failed"
    /\ vdModelConfig.found
    /\ vdModelConfig.model.enabled
    /\ ~vdModelConfig.channel.enabled
    /\ ChannelType = "grok2api"
    /\ vdOutcome.message = "video channel is disabled"
    /\ vdCalls = <<>>

\* the upstream's answer is a failure of the route it is given to
AnswerFailsChat == vdUpstream.kind \in {"throws", "http-error", "missing", "not-string"}

AnswerFailsSora == vdUpstream.kind = "throws" \/ vdUpstream.url = <<>>

\* C14: a failure on the selected route ends the request with an error: no
\* second upstream call is made, on the same or another route, and a request
\* with a modelId never reaches the legacy route.
C14_FailureAbortsWithoutFallback ==
    /\ Len(vdCalls) <= 1
    /\ HasModelId => (vdRoute # "legacy" /\ (vdRoute = "chat" => OnlyCallsOf("chat")))
    /\ (VideoAnswered /\ vdRoute = "chat" /\ AnswerFailsChat)
           => (vdPc = "failed" /\ vdOutcome.kind = "error")
    /\ (VideoAnswered /\ vdRoute \in {"sora", "legacy"} /\ AnswerFailsSora)
           => (vdPc = "failed" /\ vdOutcome.kind = "error")
    /\ vdPc = "failed" => vdOutcome.kind = "error"

C14_Witness ==
    /\ vdPc = "failed"
    /\ HasModelId
    /\ vdRoute = "chat"
    /\ vdUpstream.kind = "http-error"
    /\ Len(vdCalls) = 1

\* the seconds a duration of the model's inputs asks for; 10 is what a
\* duration without a positive number stands for
SecondsOf(duration) ==
    CASE duration = <<"5","s">> -> 5
      [] duration = <<"0","7","s">> -> 7
      [] duration = <<"1","5","s">> -> 15
      [] duration = <<"2","5","s">> -> 25
      [] duration = <<"1","5","0","s">> -> 150
      [] OTHER -> 10

\* the ratio is portrait, in any letter case
IsPortrait(ratio) == toLowerCase(ratio) = <<"p","o","r","t","r","a","i","t">>

NameHas(name, part) == includes(toLowerCase(name), part)

IsReferenceName(name) == NameHas(name, <<"r","2","v">>) \/ NameHas(name, <<"r","e","f","e","r","e","n","c","e">>)

IsImageName(name) == NameHas(name, <<"i","2","v">>) \/ NameHas(name, <<"i","m","a","g","e">>)

FlowIds ==
    { <<"v","e","o","_","3","_","0","_","r","2","v","_","f","a","s","t","_","p","o","r","t","r","a","i","t">>, <<"v","e","o","_","3","_","0","_","r","2","v","_","f","a","s","t","_","l","a","n","d","s","c","a","p","e">>,
      <<"v","e","o","_","2","_","1","_","f","a","s","t","_","d","_","1","5","_","i","2","v","_","p","o","r","t","r","a","i","t">>, <<"v","e","o","_","2","_","1","_","f","a","s","t","_","d","_","1","5","_","i","2","v","_","l","a","n","d","s","c","a","p","e">>,
      <<"v","e","o","_","3","_","1","_","i","2","v","_","s","_","f","a","s","t","_","f","l","_","p","o","r","t","r","a","i","t">>, <<"v","e","o","_","3","_","1","_","i","2","v","_","s","_","f","a","s","t","_","f","l","_","l","a","n","d","s","c","a","p","e">>,
      <<"v","e","o","_","2","_","1","_","f","a","s","t","_","d","_","1","5","_","t","2","v","_","p","o","r","t","r","a","i","t">>, <<"v","e","o","_","2","_","1","_","f","a","s","t","_","d","_","1","5","_","t","2","v","_","l","a","n","d","s","c","a","p","e">>,
      <<"v","e","o","_","3","_","1","_","t","2","v","_","f","a","s","t","_","p","o","r","t","r","a","i","t">>, <<"v","e","o","_","3","_","1","_","t","2","v","_","f","a","s","t","_","l","a","n","d","s","c","a","p","e">> }

\* the Flow identifier of a mode, a length and an orientation
FlowId(mode, long, portrait) ==
    (IF mode = "r2v" THEN <<"v","e","o","_","3","_","0","_","r","2","v","_","f","a","s","t">>
     ELSE IF mode = "i2v" THEN (IF long THEN <<"v","e","o","_","2","_","1","_","f","a","s","t","_","d","_","1","5","_","i","2","v">> ELSE <<"v","e","o","_","3","_","1","_","i","2","v","_","s","_","f","a","s","t","_","f","l">>)
     ELSE (IF long THEN <<"v","e","o","_","2","_","1","_","f","a","s","t","_","d","_","1","5","_","t","2","v">> ELSE <<"v","e","o","_","3","_","1","_","t","2","v","_","f","a","s","t">>))
    \o (IF portrait THEN <<"_","p","o","r","t","r","a","i","t">> ELSE <<"_","l","a","n","d","s","c","a","p","e">>)

\* the chat-completion call of a request on a channel of this type has been issued
ChatCallOn(type) ==
    /\ ResolvesEnabled
    /\ ChannelType = type
    /\ Len(vdCalls) = 1
    /\ vdCalls[1].kind = "chat"

\* C15: mapFlowModel returns one of the fixed Flow identifiers: the r2v one of
\* the orientation for a reference model name whatever the duration, else for
\* an image model name the 15-second i2v one from 15 seconds on and the short
\* i2v one below, else the t2v one of the length; the orientation is portrait
\* only for the ratio portrait; ("i2v-model", "portrait", "15s") gives
\* veo_2_1_fast_d_15_i2v_portrait.
C15_FlowModelFromOrientationDurationMode ==
    /\ mapFlowModel(<<"i","2","v","-","m","o","d","e","l">>, <<"p","o","r","t","r","a","i","t">>, <<"1","5","s">>) = <<"v","e","o","_","2","_","1","_","f","a","s","t","_","d","_","1","5","_","i","2","v","_","p","o","r","t","r","a","i","t">>
    /\ ChatCallOn("flow2api") =>
           LET name == vdModelConfig.model.apiModel
               long == SecondsOf(DurationInForce) >= 15
               portrait == IsPortrait(RatioInForce)
               id == vdCalls[1].model
           IN  /\ id \in FlowIds
               /\ IsReferenceName(name) => id = FlowId("r2v", long, portrait)
               /\ (~IsReferenceName(name) /\ IsImageName(name)) => id = FlowId("i2v", long, portrait)
               /\ (~IsReferenceName(name) /\ ~IsImageName(name)) => id = FlowId("t2v", long, portrait)

C15_Witness ==
    /\ ChatCallOn("flow2api")
    /\ vdModelConfig.model.apiModel = <<"i","2","v","-","m","o","d","e","l">>
    /\ RatioInForce = <<"p","o","r","t","r","a","i","t">>
    /\ DurationInForce = <<"1","5","s">>
    /\ vdCalls[1].model = <<"v","e","o","_","2","_","1","_","f","a","s","t","_","d","_","1","5","_","i","2","v","_","p","o","r","t","r","a","i","t">>

\* a model name that is already a full Grok id
IsQualifiedGrokId(name) == NameHas(name, <<"g","r","o","k","-","i","m","a","g","i","n","e","-","1",".","0","-","v","i","d","e","o","-">>)

IsVideoLike(url) ==
    \/ hasVideoExtension(toLowerCase(url))
    \/ includes(toLowerCase(url), <<"v","i","d","e","o">>)

\* the URL of the first form that applies to a content, in the order envelope,
\* video tag, source tag, markdown image, bare video-like URL
FirstFormUrl(content) ==
    LET trimmed == trim(content)
        envelope == parseMediaJsonFromContent(trimmed)
        videoTag == matchTagAttribute(trimmed, <<"<","v","i","d","e","o">>, {<<"s","r","c">>, <<"p","o","s","t","e","r">>})
        sourceTag == matchTagAttribute(trimmed, <<"<","s","o","u","r","c","e">>, {<<"s","r","c">>})
        markdown == matchMarkdownImage(trimmed)
        bare == matchBareUrl(trimmed)
    IN  IF envelope.found /\ envelope.type = <<"v","i","d","e","o">> THEN Url(envelope.url)
        ELSE IF videoTag.matched /\ trim(videoTag.text) # <<>> THEN Url(trim(videoTag.text))
        ELSE IF sourceTag.matched /\ trim(sourceTag.text) # <<>> THEN Url(trim(sourceTag.text))
        ELSE IF markdown.matched /\ trim(markdown.text) # <<>> THEN Url(trim(markdown.text))
        ELSE IF bare.matched /\ IsVideoLike(bare.text) THEN Url(bare.text)
        ELSE NoUrl

\* the chat-completion route has read an answer whose content is a string
ChatContentRead ==
    /\ vdRoute = "chat"
    /\ VideoAnswered
    /\ Len(vdCalls) = 1
    /\ vdUpstream.kind = "string"
    /\ vdUpstream.content # <<>>

\* C17 as stated: extractVideoUrlFromText returns the URL of the first form that
\* applies, in the order JSON envelope, video or source tag, markdown image,
\* bare URL, the bare URL being accepted only under the video-like heuristics;
\* when no form applies it returns none.
C17_FirstFormInOrder ==
    ChatContentRead =>
        LET expected == FirstFormUrl(vdUpstream.content)
        IN  IF expected.found
            THEN vdPc = "returned" /\ vdOutcome.url = expected.url
            ELSE vdPc = "failed"

\* the contents of the model that hold no URL at all
ContentsWithoutUrl == { <<>>, <<" ">>, <<"n","o"," ","u","r","l"," ","h","e","r","e">>, buildMediaJson(<<"v","i","d","e","o">>, <<" ">>) }

\* C18: on the chat-completion route a missing content, a content that is not
\* a string or one without a URL is a failure: no result is returned and
\* progress 100 is never reported; every result returned has a non-empty url.
C18_NoUrlIsHardFailure ==
    (vdRoute = "chat" /\ VideoAnswered /\ Len(vdCalls) = 1) =>
        /\ (\/ vdUpstream.kind \in {"missing", "not-string"}
            \/ vdUpstream.kind = "string" /\ vdUpstream.content \in ContentsWithoutUrl)
               => /\ vdPc = "failed"
                  /\ vdOutcome.kind = "error"
                  /\ vdOutcome.url = <<>>
                  /\ \A i \in 1..Len(vdProgress) : vdProgress[i] # 100
        /\ vdPc = "failed" => \A i \in 1..Len(vdProgress) : vdProgress[i] # 100
        /\ vdPc = "returned" => (vdOutcome.kind = "result" /\ vdOutcome.url # <<>>)

C18_Witness ==
    /\ vdRoute = "chat"
    /\ vdPc = "failed"
    /\ Len(vdCalls) = 1
    /\ vdUpstream.kind = "string"
    /\ vdUpstream.content = <<"n","o"," ","u","r","l"," ","h","e","r","e">>
    /\ vdOutcome = GenerateError("cannot parse a video link from the upstream response")
    /\ vdProgress = <<5>>

\* the price of the tier a duration is billed at: 25s, 15s, else the 10s tier
TierPrice(duration) ==
    IF SecondsOf(duration) = 25 THEN vdPricing.soraVideo25s
    ELSE IF SecondsOf(duration) = 15 THEN vdPricing.soraVideo15s
    ELSE vdPricing.soraVideo10s

\* the native route has returned a result for the model string it built
NativeReturned ==
    /\ vdRoute = "sora"
    /\ vdPc = "returned"
    /\ Len(vdCalls) = 1
    /\ vdOutcome.kind = "result"

\* C19 as stated: a request for 25s is priced at the 25s tier, a request for 15s
\* at the 15s tier, and any other or unrecognized duration, 07s for one, at the
\* 10s tier.
C19_CostByDurationTier ==
    /\ getTypeAndCost(<<"s","o","r","a","2","-","l","a","n","d","s","c","a","p","e","-","2","5","s">>, vdPricing).cost = vdPricing.soraVideo25s
    /\ getTypeAndCost(<<"s","o","r","a","2","-","l","a","n","d","s","c","a","p","e","-","1","5","s">>, vdPricing).cost = vdPricing.soraVideo15s
    /\ getTypeAndCost(<<"s","o","r","a","2","-","l","a","n","d","s","c","a","p","e","-","0","7","s">>, vdPricing).cost = vdPricing.soraVideo10s
    /\ NativeReturned => vdOutcome.cost = TierPrice(DurationInForce)

\* the native route has issued its generateVideo call
NativeCalled ==
    /\ vdRoute = "sora"
    /\ Len(vdCalls) = 1
    /\ vdCalls[1].kind = "sora"

\* C20 as stated: on the native route the model string sora2-{ratio}-{duration}
\* is parsed so that the orientation is portrait exactly when the requested
\* ratio is portrait, the size is 720x1280 for portrait and 1280x720 otherwise,
\* and the duration bucket is 25, 15 or 10 seconds by the requested duration.
C20_NativeModelStringParsed ==
    NativeCalled =>
        LET parsed == vdCalls[1].videoRequest
        IN  /\ parsed.orientation = "portrait" <=> IsPortrait(RatioInForce)
            /\ parsed.size = IF IsPortrait(RatioInForce) THEN "720x1280" ELSE "1280x720"
            /\ parsed.seconds = IF SecondsOf(DurationInForce) = 25 THEN "25"
                                ELSE IF SecondsOf(DurationInForce) = 15 THEN "15"
                                ELSE "10"

\* the data URL of a file
DataUrl(file) == <<"d","a","t","a",":">> \o file.mimeType \o <<";","b","a","s","e","6","4",",">> \o file.data

\* the attached files of an image MIME type, in attachment order
ImageFiles == SelectSeq(vdRequest.files, LAMBDA file : SubSeq(file.mimeType, 1, 6) = <<"i","m","a","g","e","/">>)

\* a chat-completion call has been issued
ChatCalled == vdRoute = "chat" /\ vdCalls # <<>> /\ vdCalls[1].kind = "chat"

\* the call carries one user message: a text part, then the image files as
\* inline data URLs in attachment order, in one POST that does not stream
OneMessageOfTextAndImages(text) ==
    /\ Len(vdCalls) = 1
    /\ vdCalls[1].stream = FALSE
    /\ Len(vdCalls[1].messages) = 1
    /\ LET message == vdCalls[1].messages[1]
       IN  /\ message.role = "user"
           /\ Len(message.content) = 1 + Len(ImageFiles)
           /\ message.content[1].type = "text"
           /\ message.content[1].text = text
           /\ \A i \in 1..Len(ImageFiles) :
                  /\ message.content[i + 1].type = "image_url"
                  /\ message.content[i + 1].url = DataUrl(ImageFiles[i])

\* C21 as stated: a chat-completion generation builds one user message whose
\* first part is the prompt text and whose other parts are exactly the image
\* files, as inline data URLs in attachment order, sent in a single POST with
\* streaming off.
C21_MessageOfPromptAndImages ==
    ChatCalled => OneMessageOfTextAndImages(vdRequest.prompt)

\* C21 amended: the first part is the prompt text, or the text `Generate a
\* video' when the request has no prompt; the rest as stated.
C21_MessageOfPromptOrPlaceholderAndImages ==
    ChatCalled =>
        OneMessageOfTextAndImages(IF vdRequest.prompt = <<>> THEN <<"G","e","n","e","r","a","t","e"," ","a"," ","v","i","d","e","o">>
                                  ELSE vdRequest.prompt)

C21_Witness ==
    /\ ChatCalled
    /\ vdRequest.prompt = <<"a"," ","c","a","t">>
    /\ vdRequest.files = <<PngFile, Mp4File, JpegFile>>
    /\ Len(vdCalls[1].messages[1].content) = 3
    /\ vdCalls[1].messages[1].content[3].url = <<"d","a","t","a",":","i","m","a","g","e","/","j","p","e","g",";","b","a","s","e","6","4",",","B","B","B">>

\* C27 as stated: for a request routed by modelId, on any supported channel
\* type, the cost of the returned result is the tier of the duration in force,
\* the requested one or else the model's default: the 25s tier for 25s, the 15s
\* tier for 15s, the 10s tier otherwise.
C27_RoutedCostByDurationInForce ==
    (HasModelId /\ vdPc = "returned" /\ vdRoute \in {"chat", "sora"})
        => vdOutcome.cost = TierPrice(DurationInForce)

\* the content is the JSON envelope of an image with this url
IsImageEnvelope(content, url) == trim(content) = buildMediaJson(<<"i","m","a","g","e">>, url)

\* C28 as stated: the url of a JSON envelope is returned only when its type is
\* video; the url of an image envelope is not returned as the video URL.
C28_ImageEnvelopeNotAVideoUrl ==
    \A url \in {<<"h","t","t","p","s",":","/","/","x","/","y",".","p","n","g">>} :
        (ChatContentRead /\ IsImageEnvelope(vdUpstream.content, url))
            => ~(vdPc = "returned" /\ vdOutcome.url = url)

(***************************************************************************)
(* Character-card route: vocabulary of the properties                      *)
(***************************************************************************)
RECURSIVE Flatten(_)
Flatten(chunks) == IF chunks = <<>> THEN <<>> ELSE Head(chunks) \o Flatten(Tail(chunks))

\* the payloads of the complete data: lines the upstream sends, in order
FramesOf(upstream) ==
    LET lines == splitOnNewline(Flatten(upstream.chunks))
        whole == SubSeq(lines, 1, Len(lines) - 1)
        dataLines == SelectSeq(whole, LAMBDA line : startsWith(line, <<"d","a","t","a",":"," ">>))
    IN  [i \in 1..Len(dataLines) |-> trim(slice(dataLines[i], 6))]

IsCompletionSentinel(data) == data \in {StopFrame, UpperStopFrame}

IsErrorSentinel(data) == data = ErrorFrame

FirstSentinel(upstream) ==
    LET frames == FramesOf(upstream)
        at == { i \in 1..Len(frames) :
                   IsCompletionSentinel(frames[i]) \/ IsErrorSentinel(frames[i]) }
    IN  IF at = {} THEN "none"
        ELSE IF IsErrorSentinel(frames[SetMin(at)]) THEN "error" ELSE "completion"

CardClosed(r) == ccReq[r].pc = "closed"

ReadTheStream(r) == ccReq[r].next >= 1

\* the event before the closing marker
TerminalEvent(r) == ccReq[r].events[Len(ccReq[r].events) - 1].event

\* C22: when the upstream's stream holds a completion or error sentinel, the
\* request that read it ends with the outcome of the first sentinel:
\* completed for a completion sentinel, error for an error sentinel.
C22_SentinelDecidesOutcome ==
    \A r \in Reqs :
        (CardClosed(r) /\ ReadTheStream(r)) =>
            /\ FirstSentinel(ccInput[r].upstream) = "completion" => TerminalEvent(r) = "completed"
            /\ FirstSentinel(ccInput[r].upstream) = "error" => TerminalEvent(r) = "error"

CardOf(r) == { card \in ccCards : card.id = ccReq[r].cardId }

CardEnded(r) == ccReq[r].pc \in {"responded", "closed"}

CardInFlight(r) == ccReq[r].pc \in {"fetch", "read", "updating", "deleting"}

\* C24: a request has a record only when its session and video checks passed,
\* and the record is in processing while the request works on the upstream; a
\* request that ended with completed left its record completed, one that
\* ended with error left none, and every record in processing belongs to a
\* request that has not ended.
C24_CardLeavesProcessing ==
    /\ \A r \in Reqs :
          /\ ccReq[r].cardId # 0 => (ccInput[r].session /\ ccInput[r].videoBase64 # <<>>)
          /\ ccReq[r].pc = "responded" => ccReq[r].cardId = 0
          /\ CardInFlight(r) =>
                (Cardinality(CardOf(r)) = 1 /\ \A card \in CardOf(r) : card.status = "processing")
          /\ (CardClosed(r) /\ TerminalEvent(r) = "completed") =>
                (Cardinality(CardOf(r)) = 1 /\ \A card \in CardOf(r) : card.status = "completed")
          /\ (CardClosed(r) /\ TerminalEvent(r) = "error") => CardOf(r) = {}
    /\ \A card \in ccCards :
          card.status = "processing" =>
              \E r \in Reqs : ccReq[r].cardId = card.id /\ ~CardEnded(r)

C24_Witness ==
    /\ CardClosed(1) /\ TerminalEvent(1) = "completed"
    /\ \E card \in CardOf(1) : card.status = "completed" /\ card.characterName = <<"@","a","m","y">>
    /\ CardClosed(2) /\ TerminalEvent(2) = "error" /\ CardOf(2) = {}
    /\ ccInput[2].upstream = BreaksOff

Streaming(r) == ccReq[r].stream # "none"

EventKinds(r) == [i \in 1..Len(ccReq[r].events) |-> ccReq[r].events[i].event]

\* started, then progress events only
StartedThenProgress(kinds) ==
    /\ Len(kinds) >= 1
    /\ kinds[1] = "started"
    /\ \A i \in 2..Len(kinds) : kinds[i] = "progress"

\* started, progress events, one terminal event, the marker
WholeEventSequence(kinds) ==
    /\ Len(kinds) >= 3
    /\ StartedThenProgress(SubSeq(kinds, 1, Len(kinds) - 2))
    /\ kinds[Len(kinds) - 1] \in {"completed", "error"}
    /\ kinds[Len(kinds)] = "[DONE]"

EventsInOrder ==
    \A r \in Reqs :
        Streaming(r) =>
            IF ccReq[r].stream = "closed"
            THEN WholeEventSequence(EventKinds(r))
            ELSE StartedThenProgress(EventKinds(r))

NothingAfterClose ==
    \A r \in Reqs :
        ccReq[r].stream = "closed" =>
            (ccReq'[r].stream = "closed" /\ ccReq'[r].events = ccReq[r].events)

stepAlone(w, input, config) ==
    IF w.st.pc = "start" THEN Stepped(authorize(w.st, input), w.cards, w.nextId)
    ELSE IF w.st.pc = "save" THEN createCard(w.st, input, w.cards, w.nextId)
    ELSE IF w.st.pc = "fetch" THEN Stepped(fetchUpstream(w.st, input, config), w.cards, w.nextId)
    ELSE IF w.st.pc = "read" THEN Stepped(readChunk(w.st, input), w.cards, w.nextId)
    ELSE IF w.st.pc = "updating"
         THEN Stepped(onComplete(w.st, input, w.cards).st, onComplete(w.st, input, w.cards).cards,
                      w.nextId)
    ELSE Stepped(onError(w.st, input, w.cards).st, onError(w.st, input, w.cards).cards, w.nextId)

RECURSIVE runAlone(_, _, _)
runAlone(w, input, config) ==
    IF w.st.pc \in {"responded", "closed"} THEN w
    ELSE runAlone(stepAlone(w, input, config), input, config)

\* what a request leaves: its response, its events and its record, whatever
\* id the table gave the record
CardOutcome(st, cards) ==
    [status |-> st.status,
     error |-> st.error,
     stream |-> st.stream,
     events |-> [i \in 1..Len(st.events) |-> [st.events[i] EXCEPT !.id = 0]],
     cards |-> { [card EXCEPT !.id = 0] : card \in { c \in cards : c.id = st.cardId } }]

AloneOutcome(input, config) ==
    LET w == runAlone(Stepped(NewCardRequest("start"), {}, 1), input, config)
    IN  CardOutcome(w.st, w.cards)

IsBlank(s) == \A i \in 1..Len(s) : IsWhitespace(s[i])

\* the token the stored configuration must hold after an update: empty when
\* the update brings a URL that is not blank and whose trimmed value is not
\* the stored URL's, else the update's token when it has one, else the stored
TokenAfter(stored, updates) ==
    IF /\ updates.soraBackendUrl # <<>>
       /\ ~IsBlank(updates.soraBackendUrl[1])
       /\ trim(updates.soraBackendUrl[1]) # trim(stored.soraBackendUrl)
    THEN <<>>
    ELSE IF updates.soraBackendToken # <<>> THEN updates.soraBackendToken[1]
    ELSE stored.soraBackendToken

\* C26: an accepted configuration update empties the stored soraBackendToken
\* when its soraBackendUrl is not blank and differs, trimmed, from the stored
\* one; otherwise the token is the update's, or the stored one when the
\* update has none.
C26_TokenClearedWhenUrlChanges ==
    [][(adRequest'.handler = "config.POST" /\ adResponse'.status = 200) =>
           adStore'.config.soraBackendToken = TokenAfter(adStore.config, adRequest'.body)]_vars

C26_Witness ==
    /\ adRequest.handler = "config.POST"
    /\ adRequest.role = "admin"
    /\ adRequest.body.soraBackendUrl = <<<<"h","t","t","p","s",":","/","/","b">>>>
    /\ adRequest.body.soraBackendToken = <<<<"t","o","k">>>>
    /\ adResponse.status = 200
    /\ adStore.config = [soraBackendUrl |-> <<"h","t","t","p","s",":","/","/","b">>, soraBackendToken |-> <<>>]

\* C29: a request whose session is missing or is not an admin's is answered
\* 403 by each of the six handlers, makes no persistence call and leaves the
\* store as it was.
C29_OnlyAdminsReachPersistence ==
    [][adRequest'.role # "admin" =>
           (adResponse'.status = 403 /\ adCalls' = <<>> /\ adStore' = adStore)]_vars

C29_Witness ==
    /\ adRequest.handler = "models.DELETE"
    /\ adRequest.role = "moderator"
    /\ adRequest.body.id = <<"1">>
    /\ adResponse.status = 403
    /\ adCalls = <<>>
    /\ \E model \in adStore.models : model.id = "1"

(***************************************************************************)
(* C30: when groupModels has returned, every input model is either in      *)
(* ungrouped or recorded in exactly one group as the resolution entry of   *)
(* its ratio and size, never both and never neither, and every group's     *)
(* apiModel is the id of one of the models recorded in that group.         *)
(***************************************************************************)
GroupsReturned == gmPc = "returned"

InUngrouped(id) == \E j \in 1..Len(gmResult.ungrouped) : gmResult.ungrouped[j].id = id

GroupsRecording(id) ==
    { g \in 1..Len(gmResult.grouped) :
        \E entry \in gmResult.grouped[g].resolutions : entry.id = id }

InputIds == { gmModels[i].id : i \in 1..Len(gmModels) }

C30_GroupingPartitionsModels ==
    GroupsReturned =>
        /\ \A id \in InputIds :
              \/ InUngrouped(id) /\ GroupsRecording(id) = {}
              \/ ~InUngrouped(id) /\ Cardinality(GroupsRecording(id)) = 1
        /\ \A g \in 1..Len(gmResult.grouped) :
              \E entry \in gmResult.grouped[g].resolutions :
                  entry.id = gmResult.grouped[g].apiModel

====
